---- MODULE Spec2Model ----
(***************************************************************************)
(* State-machine model of the microVM lifecycle orchestrator               *)
(* (firecracker/microvm.py) and of the host network provisioner            *)
(* (firecracker/network.py).                                               *)
(*                                                                         *)
(* The specifications share the variables:                                 *)
(*   Spec      one caller running create() step by step against the host,  *)
(*             with the hypervisor process as environment;                 *)
(*   SpecLife  Spec with delete() calls and with create() aborted;         *)
(*   SpecNet   direct create_tap, cleanup and delete_tap calls;            *)
(*   SpecPF    the port-forward operations against the nat rule table;     *)
(*   SpecOps   pause() and resume();                                       *)
(*   SpecConn  connect(), attempt by attempt;                              *)
(*   SpecFn    the pure functions and the constructor, applied to inputs;  *)
(*   SpecAddr  the address handling of the constructor, on drawn addresses;*)
(*   SpecId    generate_id, draw by draw;                                  *)
(*   SpecRace  two create_tap calls whose host commands interleave;        *)
(*   SpecBr    create_tap with or without a bridge, attach_tap_to_bridge;  *)
(*   SpecChain SpecPF on a table that also holds POSTROUTING rules;        *)
(*   SpecMap   port forwards of registered VMs, with delete();             *)
(*   SpecRules direct add_nat_rules calls, by the rule engine's answer;    *)
(*   SpecRelay connect() with the relay loop pass by pass;                 *)
(*   SpecReg   connect() and port_forward() against the registry.          *)
(*                                                                         *)
(* The packet-filter engine (nftables) is the environment of network.py.   *)
(* It is modelled by what the code relies on: an added rule is appended    *)
(* to its chain under a fresh handle (equal content is not merged), a      *)
(* batch holding an ill-typed rule is rejected as a whole, and a delete    *)
(* addressed to (chain, handle) removes exactly the rule of that handle    *)
(* in that chain and fails without effect otherwise. Listing a table that  *)
(* does not exist fails. The kernel refuses a link whose name has 16       *)
(* characters or more. It sets a link's master to any existing link that   *)
(* takes ports (a bridge, but also a bond, a team or a vrf device) and     *)
(* refuses the others.                                                     *)
(***************************************************************************)
EXTENDS Integers, Sequences, FiniteSets, TLC

(***************************************************************************)
(* Bounds and fixed data                                                   *)
(***************************************************************************)
\* Cap on the handles the nat table hands out (bounds SpecPF).
MaxNatHandle == 5

\* VM identifiers as character sequences; IdA is a substring of IdB.
IdA == <<1>>
IdB == <<1, 2>>
Ids == {IdA, IdB}

HostPorts == {8080, 8081}
DestPorts == {80, 81}

\* self._host_dev_name = f"tap_{id}" ; 0 stands for the "tap_" prefix
TapName(i) == <<0>> \o i

\* self._iface_name: the default outbound interface
UplinkName == <<9>>

\* while retries < max_retries
max_retries == 3

\* Cap on the handles the filter table hands out (bounds SpecLife, SpecNet).
MaxFilterHandle == 3

\* connect(): max_retries = 3
ssh_max_retries == 3

\* Cap on the number of keyword arguments of a constructor call (bounds SpecFn).
MaxKwargs == 2

\* self._mem_size_mib < 128
mem_size_min == 128

\* validate_hostname: one character, up to 61, one character
hostname_max == 63

\* len("tap_"), the prefix of self._host_dev_name
TapPrefixLen == 4

\* len(iface_name) > 16
iface_name_max == 16

\* an identifier of 13 characters: its tap name has 17
IdLong == [k \in 1..13 |-> 3]

\* an interface name of 17 characters
LongIface == [k \in 1..17 |-> 9]

(***************************************************************************)
(* Values handed to the rule engine, tagged with their type                *)
(***************************************************************************)
Val(t, v) == [t |-> t, v |-> v]
NoVal == Val("none", 0)
IpVal(n) == Val("ip", n)
PortVal(n) == Val("port", n)
IdVal(i) == Val("id", Len(i))
ProtoTcp == Val("proto", 6)
IfaceVal(n) == Val("iface", n)

\* get_public_ip(): the host's externally visible address
HostIp == IpVal(1)

\* VMMManager.get_vmm_ip_addr(id): the address assigned to VM id (172.16.0.x)
VmIp(i) == IpVal(IF i = IdA THEN 2 ELSE 3)

VARIABLES
    procs,        \* ids whose hypervisor (screen) process is alive
    sockets,      \* ids whose control-socket file exists
    dirs,         \* ids whose VM directory tree exists
    taps,         \* ids whose tap device tap_<id> exists
    tables,       \* the tables of family ip the rule engine holds
    filterRules,  \* rules of table ip filter, in chain order
    filterNext,   \* next handle of table ip filter
    natRules,     \* rules of table ip nat, in insertion order
    natNext,      \* next handle of table ip nat
    pc,           \* position of the caller inside create()
    cur,          \* self._microvm_id of the create() in flight
    mmds,         \* self._mmds_enabled
    pfwd,         \* self._port_forwarding
    retries,      \* the readiness poll's retries counter
    sockChecks,   \* number of os.path.exists(socket) evaluations of this poll
    ready,        \* the poll has seen the socket file
    calls,        \* control-plane calls issued by this create(), with outcome
    pfTried,      \* create() has reached its port-forward step
    apiClosed,    \* self._api.close() has run in this create()
    result,       \* what create() handed to its caller
    cause,        \* kind of the exception first raised
    surfaced,     \* kind of the exception that left create()
    pfOp,         \* last port-forward operation and its arguments
    pfRes,        \* what that operation returned
    rt,           \* progress of an add-then-delete round trip
    delPre,       \* what the VM named in the last delete() held before it
    netOp,        \* last direct call of the network provisioner
    netRes,       \* how that call ended
    vmState,      \* lifecycle state the registry holds per VM
    opReq,        \* last state update requested by pause() or resume()
    opRes,        \* how that pause() or resume() ended
    cpc,          \* position of the caller inside connect()
    attempts,     \* SSH connection attempts made by this connect()
    sleeps,       \* time.sleep(2) waits of this connect()
    connected,    \* an SSH attempt of this connect() succeeded
    shell,        \* invoke_shell() was called by this connect()
    raw,          \* the terminal is in raw mode
    old_settings, \* connect() holds the saved terminal settings
    cres,         \* how connect() ended
    fnOp,         \* the function or constructor last applied
    fnArg,        \* its argument
    fnRes,        \* what it returned or raised
    pollSock,     \* the socket file existed when the last poll attempt began
    netReports,   \* the failure the error of the last create_tap reports
    tpc,          \* position of each concurrent create_tap call
    tiface,       \* iface_name of each concurrent create_tap call
    thandle,      \* handle each concurrent ensure_masquerade looked up
    masters,      \* names of the links whose master is the link bridge_name
    bridgeKind,   \* kind of the link named self._config.bridge_name
    bridged,      \* the bridge argument of the last create_tap
    relay,        \* the relay loop: passes made, remote exit, last inputs
    sshClosed     \* channel.close() and self._ssh_client.close() have run

hostVars == <<procs, sockets, dirs, taps, tables, filterRules, filterNext, natRules, natNext>>
callVars == <<pc, cur, mmds, pfwd, retries, sockChecks, ready, calls, pfTried,
              apiClosed, result, cause, surfaced>>
pfVars == <<pfOp, pfRes, rt>>
netVars == <<netOp, netRes>>
opVars == <<vmState, opReq, opRes>>
connVars == <<cpc, attempts, sleeps, connected, shell, raw, old_settings, cres>>
fnVars == <<fnOp, fnArg, fnRes>>
raceVars == <<tpc, tiface, thandle>>
brVars == <<masters, bridgeKind, bridged>>
relayVars == <<relay, sshClosed>>
moreVars == <<pollSock, netReports, raceVars, brVars, relayVars>>
extVars == <<fnVars, moreVars>>
auxVars == <<delPre, netOp, netRes, vmState, opReq, opRes,
             cpc, attempts, sleeps, connected, shell, raw, old_settings, cres,
             extVars>>
vars == <<procs, sockets, dirs, taps, tables, filterRules, filterNext, natRules, natNext,
          pc, cur, mmds, pfwd, retries, sockChecks, ready, calls, pfTried,
          apiClosed, result, cause, surfaced, pfOp, pfRes, rt,
          delPre, netOp, netRes, vmState, opReq, opRes,
          cpc, attempts, sleeps, connected, shell, raw, old_settings, cres,
          extVars>>

(***************************************************************************)
(* Helpers                                                                 *)
(***************************************************************************)
RECURSIVE SeqFilter(_, _)
\* the elements of s whose handle is not in hs, order kept
SeqFilter(s, hs) ==
    IF s = <<>> THEN <<>>
    ELSE IF Head(s).handle \in hs THEN SeqFilter(Tail(s), hs)
         ELSE <<Head(s)>> \o SeqFilter(Tail(s), hs)

\* Python's `a in b` on strings
IsSubstring(a, b) ==
    \E k \in 0..(Len(b) - Len(a)) :
        \A j \in 1..Len(a) : b[k + j] = a[j]

IsPrefix(s, t) == Len(s) <= Len(t) /\ \A k \in 1..Len(s) : s[k] = t[k]

(***************************************************************************)
(* Network provisioner: table ip filter                                    *)
(***************************************************************************)
\* add_nat_rules: the forward-accept rule scoped to (tap, uplink)
ForwardRule(h, tap_name, iface_name) ==
    [handle |-> h, chain |-> "FORWARD", iifname |-> tap_name, oifname |-> iface_name]

\* get_nat_rules: listing table ip filter fails when the table is absent
GetNatRulesOk(tbls) == "filter" \in tbls

\* find_tap_interface_rules: a rule matches when the right-hand side of any
\* of its match expressions contains tap_name
FindTapInterfaceRules(rules, tap_name) ==
    {rules[k].handle : k \in {n \in 1..Len(rules) :
        \/ IsSubstring(tap_name, rules[n].iifname)
        \/ IsSubstring(tap_name, rules[n].oifname)}}

\* delete_nat_rules: delete_rule for every rule found
DeleteNatRules(rules, tap_name) ==
    SeqFilter(rules, FindTapInterfaceRules(rules, tap_name))

\* cleanup(tap_device): delete_nat_rules, then delete_tap. self._config.bridge
\* of the NetworkManager is never set, so the rules are always looked up; the
\* lookup raises when table ip filter is absent and delete_tap is then skipped.
CleanupRules(tbls, rules, i) ==
    IF GetNatRulesOk(tbls) THEN DeleteNatRules(rules, TapName(i)) ELSE rules

CleanupTaps(tbls, tps, i) ==
    IF GetNatRulesOk(tbls) THEN tps \ {i} ELSE tps

(***************************************************************************)
(* Network provisioner: table ip nat                                       *)
(***************************************************************************)
NatRule(h, ch, da, dp, pr, ta, tp, sa, oif, mq) ==
    [handle |-> h, chain |-> ch, daddr |-> da, dport |-> dp, proto |-> pr,
     dnat_addr |-> ta, dnat_port |-> tp, saddr |-> sa, oifname |-> oif,
     masq |-> mq]

\* ensure_masquerade: oifname == iface_name, masquerade, chain POSTROUTING
MasqueradeRule(h, iface_name) ==
    NatRule(h, "POSTROUTING", NoVal, NoVal, NoVal, NoVal, NoVal, NoVal,
            iface_name, TRUE)

\* add_port_forward: the rule of chain postrouting (saddr dest_ip/32, masquerade)
PostroutingRule(h, dest_ip) ==
    NatRule(h, "postrouting", NoVal, NoVal, NoVal, NoVal, NoVal, dest_ip,
            NoVal, TRUE)

\* add_port_forward: the rule of chain prerouting (daddr, dport, dnat)
PreroutingRule(h, host_ip, host_port, dest_ip, dest_port, protocol) ==
    NatRule(h, "prerouting", host_ip, host_port, protocol, dest_ip, dest_port,
            NoVal, NoVal, FALSE)

\* the rule engine accepts a rule only when every operand has its field's type
NftRuleOk(r) ==
    /\ r.daddr.t \in {"none", "ip"}
    /\ r.dport.t \in {"none", "port"}
    /\ r.proto.t \in {"none", "proto"}
    /\ r.dnat_addr.t \in {"none", "ip"}
    /\ r.dnat_port.t \in {"none", "port"}
    /\ r.saddr.t \in {"none", "ip"}
    /\ r.oifname.t \in {"none", "iface"}

\* the listing of table ip nat: chain by chain, rules in order inside a chain
ChainRules(rules, ch) == SelectSeq(rules, LAMBDA r : r.chain = ch)

ListNatTable(rules) ==
    ChainRules(rules, "POSTROUTING") \o ChainRules(rules, "postrouting")
        \o ChainRules(rules, "prerouting")

\* get_masquerade_handle: 0 stands for None
IsMasqueradeFor(r, iface_name) ==
    r.chain = "POSTROUTING" /\ r.oifname = iface_name /\ r.masq

\* a lookup that searches the chain add_port_forward writes to
GetMasqueradeHandle_m(tbls, rules, iface_name) ==
    LET l == ChainRules(rules, "postrouting")
        m == {k \in 1..Len(l) : l[k].oifname = iface_name /\ l[k].masq}
    IN  IF "nat" \notin tbls \/ m = {} THEN 0
        ELSE l[CHOOSE k \in m : \A j \in m : k <= j].handle

GetMasqueradeHandle(tbls, rules, iface_name) ==
    LET l == ListNatTable(rules)
        m == {k \in 1..Len(l) : IsMasqueradeFor(l[k], iface_name)}
    IN  IF "nat" \notin tbls \/ m = {} THEN 0
        ELSE l[CHOOSE k \in m : \A j \in m : k <= j].handle

(***************************************************************************)
(* Registry (VMMManager)                                                   *)
(***************************************************************************)
\* VMMManager.list_vmms(): the registry enumerates the VMs that exist; it
\* tracks the on-disk VM directories and derives each VM's state (running,
\* paused, stopped), so a VM is listed as long as its directory exists
ListVmms == dirs

\* VMMManager.cleanup_resources(id): stop the process, tear down tap and
\* tap-scoped rules, remove the directory tree (the socket file lies in it)
CleanupResources(i) ==
    /\ procs' = procs \ {i}
    /\ sockets' = sockets \ {i}
    /\ dirs' = dirs \ {i}
    /\ taps' = taps \ {i}
    /\ filterRules' = DeleteNatRules(filterRules, TapName(i))
    /\ UNCHANGED <<tables, filterNext, natRules, natNext>>

(***************************************************************************)
(* create(): exits                                                         *)
(***************************************************************************)
\* the kind create() hands to its caller for an exception of kind k:
\* `except Exception as e: raise VMMError(...)`
SurfacedKind(k) == "VMMError"

\* an exception of kind k leaves the try block of create(): wrapped by the
\* except clause, then the finally clause closes self._api
Raised(k) ==
    /\ result' = "raised"
    /\ cause' = k
    /\ surfaced' = SurfacedKind(k)
    /\ apiClosed' = TRUE

Raise(k) == pc' = "raised" /\ Raised(k)

\* an existence check that only looks for a live process
VmmExists_m(i) == i \in procs

\* the existence check of create()
VmmExists(i) == i \in sockets \/ i \in ListVmms

\* a put on the control socket succeeds only when the hypervisor answers
PutOk(i, ok) == ok /\ i \in procs /\ i \in sockets

\* a configuration sequence that carries on after a failed call
AfterPut_m(ok, nxt) == nxt

\* pc after a configuration call of _basic_config
AfterPut(ok, nxt) == IF ok THEN nxt ELSE "raised"

\* if self._mmds_enabled: self._configure_vmm_mmds()
AfterNetwork(m) == IF m THEN "mmds_config" ELSE "start"

\* a readiness loop that runs once more: while retries <= max_retries
PollExhausted_m(r) == r > max_retries

\* while retries < max_retries
PollExhausted(r) == r >= max_retries

Call(ep, ok) == [ep |-> ep, ok |-> ok]

(***************************************************************************)
(* Init                                                                    *)
(***************************************************************************)
IdleCall ==
    /\ pc = "idle"
    /\ cur = IdA
    /\ mmds = FALSE
    /\ pfwd = FALSE
    /\ retries = 0
    /\ sockChecks = 0
    /\ ready = FALSE
    /\ calls = <<>>
    /\ pfTried = FALSE
    /\ apiClosed = FALSE
    /\ result = "none"
    /\ cause = "none"
    /\ surfaced = "none"

IdlePf ==
    /\ pfOp = [op |-> "none", id |-> IdA, hp |-> 0, dp |-> 0]
    /\ pfRes = "none"
    /\ rt = [st |-> "none", id |-> IdA, hp |-> 0, dp |-> 0]

NoPre == [dir |-> FALSE, proc |-> FALSE, sock |-> FALSE, tap |-> FALSE, rule |-> FALSE]

NoNetOp == [op |-> "none", id |-> IdA, iface |-> UplinkName, had |-> FALSE]

NoReq == [op |-> "none", id |-> IdA, state |-> "none", ok |-> FALSE, from |-> "none"]

NoCres == [res |-> "none", by |-> "none"]

IdleConn ==
    /\ cpc = "idle"
    /\ attempts = 0
    /\ sleeps = 0
    /\ connected = FALSE
    /\ shell = FALSE
    /\ raw = FALSE
    /\ old_settings = FALSE
    /\ cres = NoCres

NoArg == [kind |-> "none"]

IdleFn ==
    /\ fnOp = "none"
    /\ fnArg = NoArg
    /\ fnRes = NoArg

IdleRace ==
    /\ tpc = [i \in Ids |-> "idle"]
    /\ tiface = [i \in Ids |-> UplinkName]
    /\ thandle = [i \in Ids |-> 0]

IdleBr == masters = {} /\ bridgeKind = "bridge" /\ bridged = FALSE

NoRelay == [iters |-> 0, exited |-> FALSE, rx |-> "none", tx |-> "none", exc |-> FALSE]

IdleRelay == relay = NoRelay /\ sshClosed = FALSE

IdleHist == pollSock = FALSE /\ netReports = "none" /\ IdleRace /\ IdleRelay

IdleMore == IdleHist /\ IdleBr

IdleExt == IdleFn /\ IdleMore

IdleAux ==
    /\ delPre = NoPre
    /\ netOp = NoNetOp
    /\ netRes = "none"
    /\ vmState = [i \in Ids |-> "Running"]
    /\ opReq = NoReq
    /\ opRes = "none"
    /\ IdleConn
    /\ IdleExt

\* a host without VMs; the rule engine may or may not hold the two tables
Init ==
    /\ procs = {}
    /\ sockets = {}
    /\ dirs = {}
    /\ taps = {}
    /\ tables \in SUBSET {"filter", "nat"}
    /\ filterRules = <<>>
    /\ filterNext = 1
    /\ natRules = <<>>
    /\ natNext = 1
    /\ IdleCall
    /\ IdlePf
    /\ IdleAux

(***************************************************************************)
(* create(): steps                                                         *)
(***************************************************************************)
\* create() up to the try block: keyword check, existence check
CreateBegin(i, kw, m, p) ==
    /\ pc = "idle"
    /\ cur' = i
    /\ mmds' = m
    /\ pfwd' = p
    /\ IF kw
       THEN pc' = "returned" /\ result' = "unexpected_kw"
       ELSE IF VmmExists(i)
            THEN pc' = "returned" /\ result' = "exists"
            ELSE pc' = "spawn" /\ result' = "none"
    /\ UNCHANGED <<retries, sockChecks, ready, calls, pfTried, apiClosed,
                   cause, surfaced>>
    /\ UNCHANGED hostVars
    /\ UNCHANGED pfVars
    /\ UNCHANGED auxVars

\* _spawn up to the readiness poll: directories, rootfs copy, log files,
\* screen session. Any exception runs cleanup_resources and is re-raised.
SpawnProcess(ok) ==
    /\ pc = "spawn"
    /\ IF ok
       THEN /\ dirs' = dirs \cup {cur}
            /\ procs' = procs \cup {cur}
            /\ pc' = "poll"
            /\ retries' = 0
            /\ UNCHANGED <<sockets, taps, tables, filterRules, filterNext,
                           natRules, natNext>>
            /\ UNCHANGED <<result, cause, surfaced, apiClosed>>
       ELSE /\ CleanupResources(cur)
            /\ Raise("ProcessError")
            /\ UNCHANGED retries
    /\ UNCHANGED <<cur, mmds, pfwd, sockChecks, ready, calls, pfTried>>
    /\ UNCHANGED pfVars
    /\ UNCHANGED auxVars

\* a loop body that looks at the socket file first
PollCheck_m(alive, sock) ==
    IF sock THEN "ready" ELSE IF ~alive THEN "dead" ELSE "retry"

\* the body of the readiness loop: psutil.pid_exists, then os.path.exists
PollCheck(alive, sock) ==
    IF ~alive THEN "dead" ELSE IF sock THEN "ready" ELSE "retry"

\* one pass of the readiness loop: liveness check, then socket check
PollAttempt ==
    /\ pc = "poll"
    /\ ~PollExhausted(retries)
    /\ LET o == PollCheck(cur \in procs, cur \in sockets) IN
       IF o = "dead"
       THEN /\ CleanupResources(cur)
            /\ Raise("ProcessError")
            /\ UNCHANGED <<retries, sockChecks, ready>>
       ELSE /\ sockChecks' = sockChecks + 1
            /\ IF o = "ready"
               THEN /\ ready' = TRUE
                    /\ pc' = "boot"
                    /\ UNCHANGED retries
               ELSE /\ retries' = retries + 1
                    /\ UNCHANGED <<ready, pc>>
            /\ UNCHANGED <<result, cause, surfaced, apiClosed>>
            /\ UNCHANGED hostVars
    /\ pollSock' = (cur \in sockets)
    /\ UNCHANGED <<netReports, raceVars, brVars, relayVars>>
    /\ UNCHANGED <<cur, mmds, pfwd, calls, pfTried>>
    /\ UNCHANGED pfVars
    /\ UNCHANGED <<delPre, netVars, opVars, connVars, fnVars>>

\* the loop ran out: raise APIError, cleanup_resources, re-raise
PollGiveUp ==
    /\ pc = "poll"
    /\ PollExhausted(retries)
    /\ CleanupResources(cur)
    /\ Raise("APIError")
    /\ UNCHANGED <<cur, mmds, pfwd, retries, sockChecks, ready, calls, pfTried>>
    /\ UNCHANGED pfVars
    /\ UNCHANGED auxVars

\* one put of _basic_config; a failure is raised as ConfigurationError
ConfigPut(at, ep, nxt, ok) ==
    /\ pc = at
    /\ calls' = Append(calls, Call(ep, PutOk(cur, ok)))
    /\ pc' = AfterPut(PutOk(cur, ok), nxt)
    /\ IF PutOk(cur, ok)
       THEN UNCHANGED <<result, cause, surfaced, apiClosed>>
       ELSE Raised("ConfigurationError")
    /\ UNCHANGED <<cur, mmds, pfwd, retries, sockChecks, ready, pfTried>>
    /\ UNCHANGED hostVars
    /\ UNCHANGED pfVars
    /\ UNCHANGED auxVars

ConfigureBootSource(ok) == ConfigPut("boot", "boot", "drive", ok)

ConfigureRootDrive(ok) == ConfigPut("drive", "drive", "machine", ok)

ConfigureResources(ok) == ConfigPut("machine", "machine", "tap", ok)

ConfigureNetworkPut(ok) == ConfigPut("netput", "network", AfterNetwork(mmds), ok)

ConfigureMmdsConfig(ok) == ConfigPut("mmds_config", "mmds_config", "mmds_data", ok)

ConfigureMmdsData(ok) == ConfigPut("mmds_data", "mmds", "start", ok)

\* the host state the network provisioner works on
NetHost ==
    [taps |-> taps, tables |-> tables, filterRules |-> filterRules,
     filterNext |-> filterNext, natRules |-> natRules, natNext |-> natNext]

\* length of an interface name; the "tap_" prefix counts its characters
NameLength(n) == Len(n) + (TapPrefixLen - 1) * Cardinality({k \in DOMAIN n : n[k] = 0})

\* the kernel takes a link name of fewer than IFNAMSIZ (16) characters
KernelNameOk(n) == NameLength(n) < iface_name_max

\* a create_tap that does not look for the device first
TapExists_m(tps, i) == FALSE

\* check_tap_device(name): the device of VM i exists
TapExists(tps, i) == i \in tps

\* `self.cleanup(name); raise NetworkError(... str(e))`: the failure the
\* exception leaving the handler reports. A NetworkError raised by cleanup
\* (get_nat_rules) leaves the handler before its own raise statement.
ErrorAfterCleanup(tbls, what) ==
    IF GetNatRulesOk(tbls) THEN what ELSE "get_nat_rules"

\* the except clause of create_tap on host state h, entered for the failure
\* of command what: cleanup(name), then raise NetworkError
TapFailed(h, i, what) ==
    [h EXCEPT !.taps = CleanupTaps(h.tables, h.taps, i),
              !.filterRules = CleanupRules(h.tables, h.filterRules, i)]
    @@ [err |-> "NetworkError", reports |-> ErrorAfterCleanup(h.tables, what)]

\* create_tap(name=tap_<i>, iface_name, gateway_ip, bridge=False) on host
\* state h. fp names the host command that fails: "link" (link add or set
\* up), "rules" (add_nat_rules), "masq" (the masquerade add, only logged),
\* "addr" (addr add), "none". The result is the host state left behind and
\* the kind of the exception raised ("none": returned).
CreateTapOutcome(h, i, iface_name, fp) ==
    IF NameLength(iface_name) > iface_name_max
    THEN h @@ [err |-> "ValueError", reports |-> "iface_name"]
    ELSE IF TapExists(h.taps, i)
    THEN h @@ [err |-> "none", reports |-> "none"]
    ELSE IF fp = "link" \/ ~KernelNameOk(TapName(i))
    THEN TapFailed(h, i, "link")
    ELSE IF fp = "rules"
    THEN TapFailed([h EXCEPT !.taps = @ \cup {i}], i, "rules")
    ELSE LET tbls == h.tables \cup {"nat", "filter"}
             frules == Append(h.filterRules,
                              ForwardRule(h.filterNext, TapName(i), iface_name))
             found == GetMasqueradeHandle(tbls, h.natRules, IfaceVal(Head(iface_name)))
             masq == found = 0 /\ fp # "masq"
             g == [taps |-> h.taps \cup {i},
                   tables |-> tbls,
                   filterRules |-> frules,
                   filterNext |-> h.filterNext + 1,
                   natRules |-> IF masq
                                THEN Append(h.natRules,
                                            MasqueradeRule(h.natNext,
                                                           IfaceVal(Head(iface_name))))
                                ELSE h.natRules,
                   natNext |-> IF masq THEN h.natNext + 1 ELSE h.natNext]
         IN  IF fp = "addr"
             THEN TapFailed(g, i, "addr")
             ELSE g @@ [err |-> "none", reports |-> "none"]

\* the host state is the one of outcome o
HostBecomes(o) ==
    /\ taps' = o.taps
    /\ tables' = o.tables
    /\ filterRules' = o.filterRules
    /\ filterNext' = o.filterNext
    /\ natRules' = o.natRules
    /\ natNext' = o.natNext

\* a failing command is only drawn where create_tap runs commands
FpApplies(h, i, fp) == TapExists(h.taps, i) => fp = "none"

\* a _configure_vmm_network that goes on to the put whatever create_tap did
TapProvisioned_m(o) == TRUE

\* create_tap returned: the statement after it, self._api.network.put, runs
TapProvisioned(o) == o.err = "none"

\* _configure_vmm_network: create_tap for the VM's tap on the uplink
CreateTap(fp) ==
    /\ pc = "tap"
    /\ filterNext <= MaxFilterHandle
    /\ FpApplies(NetHost, cur, fp)
    /\ LET o == CreateTapOutcome(NetHost, cur, UplinkName, fp)
       IN  /\ HostBecomes(o)
           /\ IF TapProvisioned(o)
              THEN /\ pc' = "netput"
                   /\ UNCHANGED <<result, cause, surfaced, apiClosed>>
              ELSE Raise(o.err)
    /\ UNCHANGED <<procs, sockets, dirs>>
    /\ UNCHANGED <<cur, mmds, pfwd, retries, sockChecks, ready, calls, pfTried>>
    /\ UNCHANGED pfVars
    /\ UNCHANGED auxVars

\* self._api.actions.put(action_type="InstanceStart"), then either the
\* port-forward step or the successful return through the finally clause
InstanceStart(ok) ==
    /\ pc = "start"
    /\ calls' = Append(calls, Call("start", PutOk(cur, ok)))
    /\ IF PutOk(cur, ok)
       THEN IF pfwd
            THEN /\ pc' = "portfwd"
                 /\ UNCHANGED <<result, cause, surfaced, apiClosed>>
            ELSE /\ pc' = "returned"
                 /\ result' = "created"
                 /\ apiClosed' = TRUE
                 /\ UNCHANGED <<cause, surfaced>>
       ELSE Raise("APIError")
    /\ UNCHANGED <<cur, mmds, pfwd, retries, sockChecks, ready, pfTried>>
    /\ UNCHANGED hostVars
    /\ UNCHANGED pfVars
    /\ UNCHANGED auxVars

\* if self._port_forwarding: self._port_forward() -- the class defines no
\* method of that name, so the call raises AttributeError
CreatePortForward ==
    /\ pc = "portfwd"
    /\ pfTried' = TRUE
    /\ Raise("AttributeError")
    /\ UNCHANGED <<cur, mmds, pfwd, retries, sockChecks, ready, calls>>
    /\ UNCHANGED hostVars
    /\ UNCHANGED pfVars
    /\ UNCHANGED auxVars

\* control is back at the caller; the next call starts from scratch
CallerContinues ==
    /\ pc \in {"returned", "raised", "aborted"}
    /\ pc' = "idle"
    /\ cur' = IdA
    /\ mmds' = FALSE
    /\ pfwd' = FALSE
    /\ retries' = 0
    /\ sockChecks' = 0
    /\ ready' = FALSE
    /\ calls' = <<>>
    /\ pfTried' = FALSE
    /\ apiClosed' = FALSE
    /\ result' = "none"
    /\ cause' = "none"
    /\ surfaced' = "none"
    /\ UNCHANGED hostVars
    /\ UNCHANGED pfVars
    /\ UNCHANGED auxVars

(***************************************************************************)
(* Environment: the hypervisor process                                     *)
(***************************************************************************)
\* the hypervisor creates its API socket some time after it was started
SocketAppears(i) ==
    /\ i \in procs
    /\ i \in dirs
    /\ i \notin sockets
    /\ sockets' = sockets \cup {i}
    /\ UNCHANGED <<procs, dirs, taps, tables, filterRules, filterNext, natRules, natNext>>
    /\ UNCHANGED callVars
    /\ UNCHANGED pfVars
    /\ UNCHANGED auxVars

\* the hypervisor process exits; its socket file stays behind
ProcessExits(i) ==
    /\ i \in procs
    /\ procs' = procs \ {i}
    /\ UNCHANGED <<sockets, dirs, taps, tables, filterRules, filterNext, natRules, natNext>>
    /\ UNCHANGED callVars
    /\ UNCHANGED pfVars
    /\ UNCHANGED auxVars

FailPoints == {"none", "link", "rules", "masq", "addr"}

Next ==
    \/ \E i \in Ids, kw \in BOOLEAN, m \in BOOLEAN, p \in BOOLEAN : CreateBegin(i, kw, m, p)
    \/ \E ok \in BOOLEAN : SpawnProcess(ok)
    \/ PollAttempt
    \/ PollGiveUp
    \/ \E ok \in BOOLEAN : ConfigureBootSource(ok)
    \/ \E ok \in BOOLEAN : ConfigureRootDrive(ok)
    \/ \E ok \in BOOLEAN : ConfigureResources(ok)
    \/ \E fp \in FailPoints : CreateTap(fp)
    \/ \E ok \in BOOLEAN : ConfigureNetworkPut(ok)
    \/ \E ok \in BOOLEAN : ConfigureMmdsConfig(ok)
    \/ \E ok \in BOOLEAN : ConfigureMmdsData(ok)
    \/ \E ok \in BOOLEAN : InstanceStart(ok)
    \/ CreatePortForward
    \/ CallerContinues
    \/ \E i \in Ids : SocketAppears(i)
    \/ \E i \in Ids : ProcessExits(i)

Spec == Init /\ [][Next]_vars

(***************************************************************************)
(* Port forwarding                                                         *)
(***************************************************************************)
\* the rule engine deletes the rule of that handle in that chain, if any
NftDeleteRule(rules, ch, h) ==
    SelectSeq(rules, LAMBDA r : ~(r.chain = ch /\ r.handle = h))

\* get_port_forward_handles: the prerouting test of one rule
IsPreroutingMatch(r, host_ip, host_port, dest_ip, dest_port) ==
    /\ r.chain = "prerouting"
    /\ r.daddr = host_ip
    /\ r.dport = host_port
    /\ r.dnat_addr = dest_ip
    /\ r.dnat_port = dest_port

\* get_port_forward_handles: the postrouting test of one rule
IsPostroutingMatch(r, dest_ip) ==
    /\ r.chain \in {"postrouting", "POSTROUTING"}
    /\ r.saddr = dest_ip
    /\ r.masq

\* the handle a later match overwrites an earlier one with; 0 when none
LastHandle(l, m) ==
    IF m = {} THEN 0 ELSE l[CHOOSE k \in m : \A j \in m : j <= k].handle

\* get_port_forward_handles: the dictionary of handles; listing table ip nat
\* fails when the table is absent. The dictionary has no chain entry.
GetPortForwardHandles(tbls, rules, host_ip, host_port, dest_ip, dest_port) ==
    LET l == ListNatTable(rules)
    IN  [ok |-> "nat" \in tbls,
         prerouting |-> LastHandle(l, {k \in 1..Len(l) :
                            IsPreroutingMatch(l[k], host_ip, host_port, dest_ip, dest_port)}),
         postrouting |-> LastHandle(l, {k \in 1..Len(l) :
                            IsPostroutingMatch(l[k], dest_ip)}),
         postrouting_chain |-> "none"]

\* add_port_forward: one batch holding the postrouting and the prerouting
\* rule; the outcome of json_cmd is not looked at
AddPortForwardRules(rules, nxt, host_ip, host_port, dest_ip, dest_port, protocol) ==
    LET post == PostroutingRule(nxt, dest_ip)
        pre == PreroutingRule(nxt + 1, host_ip, host_port, dest_ip, dest_port, protocol)
    IN  IF NftRuleOk(post) /\ NftRuleOk(pre)
        THEN [ok |-> TRUE, rules |-> rules \o <<post, pre>>, next |-> nxt + 2]
        ELSE [ok |-> FALSE, rules |-> rules, next |-> nxt]

\* the chain choice with its two branches swapped
PostroutingChain_m(h) ==
    IF h.postrouting_chain = "POSTROUTING" THEN "postrouting" ELSE "POSTROUTING"

\* delete_port_forward: the chain the postrouting delete is addressed to
PostroutingChain(h) ==
    IF h.postrouting_chain = "POSTROUTING" THEN "POSTROUTING" ELSE "postrouting"

\* delete_port_forward after a successful lookup
DeletePortForwardRules(rules, h) ==
    LET r1 == IF h.prerouting # 0
              THEN NftDeleteRule(rules, "prerouting", h.prerouting) ELSE rules
    IN  IF h.postrouting # 0
        THEN NftDeleteRule(r1, PostroutingChain(h), h.postrouting) ELSE r1

PfOp(op, i, hp, dp) == [op |-> op, id |-> i, hp |-> hp, dp |-> dp]

NoRt == [st |-> "none", id |-> IdA, hp |-> 0, dp |-> 0]

\* NetworkManager.add_port_forward(host_ip, hp, ip of VM i, dp)
AddPortForward(i, hp, dp) ==
    LET a == AddPortForwardRules(natRules, natNext, HostIp, PortVal(hp),
                                 VmIp(i), PortVal(dp), ProtoTcp)
        h == GetPortForwardHandles(tables, natRules, HostIp, PortVal(hp),
                                   VmIp(i), PortVal(dp))
    IN  /\ natNext + 1 <= MaxNatHandle
        /\ natRules' = a.rules
        /\ natNext' = a.next
        /\ tables' = IF a.ok THEN tables \cup {"nat"} ELSE tables
        /\ pfOp' = PfOp("add", i, hp, dp)
        /\ pfRes' = "ok"
        /\ rt' = IF h.prerouting = 0 /\ h.postrouting = 0
                 THEN [st |-> "added", id |-> i, hp |-> hp, dp |-> dp]
                 ELSE NoRt
        /\ UNCHANGED <<procs, sockets, dirs, taps, filterRules, filterNext>>
        /\ UNCHANGED callVars
        /\ UNCHANGED auxVars

\* NetworkManager.delete_port_forward(host_ip, hp, ip of VM i, dp)
DeletePortForward(i, hp, dp) ==
    LET h == GetPortForwardHandles(tables, natRules, HostIp, PortVal(hp),
                                   VmIp(i), PortVal(dp))
    IN  /\ IF h.ok
           THEN /\ natRules' = DeletePortForwardRules(natRules, h)
                /\ pfRes' = "ok"
           ELSE /\ UNCHANGED natRules
                /\ pfRes' = "NetworkError"
        /\ pfOp' = PfOp("delete", i, hp, dp)
        /\ rt' = IF rt = [st |-> "added", id |-> i, hp |-> hp, dp |-> dp] /\ h.ok
                 THEN [st |-> "deleted", id |-> i, hp |-> hp, dp |-> dp]
                 ELSE NoRt
        /\ UNCHANGED <<procs, sockets, dirs, taps, tables, filterRules, filterNext, natNext>>
        /\ UNCHANGED callVars
        /\ UNCHANGED auxVars

\* a registry check that answers for an empty listing only
RegistryCheck_m(i) == IF ListVmms = {} THEN "no_vmms" ELSE "ok"

\* if not self._vmm.list_vmms(): return 'No VMMs available ...';
\* if id not in available_vmm_ids: return '... does not exist'
RegistryCheck(i) ==
    IF ListVmms = {} THEN "no_vmms"
    ELSE IF i \notin ListVmms THEN "not_exist"
    ELSE "ok"

\* MicroVM.port_forward(id, host_port, dest_port, remove). ipOk: get_public_ip
\* found the address. The add call hands five positional arguments to a
\* method whose parameters are (host_ip, host_port, dest_ip, dest_port,
\* protocol).
PortForward(i, hp, dp, remove, ipOk) ==
    /\ IF RegistryCheck(i) # "ok"
       THEN /\ pfRes' = RegistryCheck(i)
            /\ UNCHANGED <<natRules, natNext, tables>>
       ELSE IF ~ipOk
       THEN /\ pfRes' = "VMMError"
            /\ UNCHANGED <<natRules, natNext, tables>>
       ELSE IF remove
       THEN LET h == GetPortForwardHandles(tables, natRules, HostIp, PortVal(hp),
                                           VmIp(i), PortVal(dp))
            IN  /\ IF h.ok
                   THEN /\ natRules' = DeletePortForwardRules(natRules, h)
                        /\ pfRes' = "removed"
                   ELSE /\ UNCHANGED natRules
                        /\ pfRes' = "VMMError"
                /\ UNCHANGED <<natNext, tables>>
       ELSE LET a == AddPortForwardRules(natRules, natNext, IdVal(i), HostIp,
                                         PortVal(hp), VmIp(i), PortVal(dp))
            IN  /\ natNext + 1 <= MaxNatHandle
                /\ natRules' = a.rules
                /\ natNext' = a.next
                /\ tables' = IF a.ok THEN tables \cup {"nat"} ELSE tables
                /\ pfRes' = "active"
    /\ pfOp' = PfOp(IF remove THEN "pf_remove" ELSE "pf_add", i, hp, dp)
    /\ rt' = NoRt
    /\ UNCHANGED <<procs, sockets, dirs, taps, filterRules, filterNext>>
    /\ UNCHANGED callVars
    /\ UNCHANGED auxVars

\* the forward rules of the taps of the VMs in r, in creation order
ForwardRulesOf(r) ==
    IF r = {} THEN <<>>
    ELSE IF r = Ids
    THEN <<ForwardRule(1, TapName(IdA), UplinkName), ForwardRule(2, TapName(IdB), UplinkName)>>
    ELSE <<ForwardRule(1, TapName(CHOOSE i \in r : TRUE), UplinkName)>>

\* a host on which the VMs of some set were created and are running
InitPF ==
    \E r \in SUBSET Ids :
        /\ procs = r
        /\ sockets = r
        /\ dirs = r
        /\ taps = r
        /\ tables \in (IF r = {} THEN SUBSET {"filter", "nat"} ELSE {{"filter", "nat"}})
        /\ filterRules = ForwardRulesOf(r)
        /\ filterNext = Cardinality(r) + 1
        /\ natRules = IF r = {} THEN <<>> ELSE <<MasqueradeRule(1, IfaceVal(9))>>
        /\ natNext = IF r = {} THEN 1 ELSE 2
        /\ IdleCall
        /\ IdlePf
        /\ IdleAux

NextPF ==
    \/ \E i \in Ids, hp \in HostPorts, dp \in DestPorts : AddPortForward(i, hp, dp)
    \/ \E i \in Ids, hp \in HostPorts, dp \in DestPorts : DeletePortForward(i, hp, dp)
    \/ \E i \in Ids, hp \in HostPorts, dp \in DestPorts, rm \in BOOLEAN, ipOk \in BOOLEAN :
           PortForward(i, hp, dp, rm, ipOk)

SpecPF == InitPF /\ [][NextPF]_vars

(***************************************************************************)
(* Table ip nat is host-global: rules may also be written by others. The   *)
(* lookup of get_port_forward_handles accepts a return-path rule in chain  *)
(* POSTROUTING as well as in chain postrouting; add_port_forward writes    *)
(* the lower-case chain only, so a rule in the upper-case chain comes from *)
(* another writer (an administrator, another tool).                        *)
(***************************************************************************)
\* a return-path rule (saddr dest_ip, masquerade) in chain POSTROUTING
UpperCaseReturnPath(h, dest_ip) ==
    [PostroutingRule(h, dest_ip) EXCEPT !.chain = "POSTROUTING"]

\* another writer adds a return-path rule for VM i to chain POSTROUTING
ForeignReturnPath(i) ==
    /\ "nat" \in tables
    /\ natNext <= MaxNatHandle
    /\ natRules' = Append(natRules, UpperCaseReturnPath(natNext, VmIp(i)))
    /\ natNext' = natNext + 1
    /\ UNCHANGED <<procs, sockets, dirs, taps, tables, filterRules, filterNext>>
    /\ UNCHANGED callVars
    /\ UNCHANGED pfVars
    /\ UNCHANGED auxVars

\* one mapping per VM
ChainHostPorts == {8080}

ChainDestPorts == {80}

NextChain ==
    \/ \E i \in Ids : ForeignReturnPath(i)
    \/ \E i \in Ids, hp \in ChainHostPorts, dp \in ChainDestPorts :
           AddPortForward(i, hp, dp)
    \/ \E i \in Ids, hp \in ChainHostPorts, dp \in ChainDestPorts :
           DeletePortForward(i, hp, dp)

\* the port-forward calls for one mapping per VM on a shared nat table
SpecChain == InitPF /\ [][NextChain]_vars

(***************************************************************************)
(* Network provisioner: direct calls                                       *)
(***************************************************************************)
NetIds == Ids \cup {IdLong}

IfaceNames == {UplinkName, LongIface}

\* a call and whether the device of VM i existed when it was made
NetCall(op, i, iface_name) ==
    [op |-> op, id |-> i, iface |-> iface_name, had |-> i \in taps]

\* NetworkManager.create_tap(name=tap_<i>, iface_name=..., gateway_ip=...)
NetCreateTap(i, iface_name, fp) ==
    /\ filterNext <= MaxFilterHandle
    /\ FpApplies(NetHost, i, fp)
    /\ LET o == CreateTapOutcome(NetHost, i, iface_name, fp)
       IN  /\ HostBecomes(o)
           /\ netRes' = o.err
           /\ netReports' = o.reports
    /\ netOp' = NetCall("create_tap", i, iface_name)
    /\ bridged' = FALSE
    /\ UNCHANGED <<masters, bridgeKind>>
    /\ UNCHANGED <<procs, sockets, dirs>>
    /\ UNCHANGED <<delPre, opVars, connVars>>
    /\ UNCHANGED <<fnVars, pollSock, raceVars, relayVars>>
    /\ UNCHANGED callVars
    /\ UNCHANGED pfVars

\* NetworkManager.cleanup(tap_<i>): delete_nat_rules, then delete_tap; the
\* NetworkError of get_nat_rules leaves cleanup before delete_tap
NetCleanup(i) ==
    /\ taps' = CleanupTaps(tables, taps, i)
    /\ filterRules' = CleanupRules(tables, filterRules, i)
    /\ netRes' = IF GetNatRulesOk(tables) THEN "none" ELSE "NetworkError"
    /\ netOp' = NetCall("cleanup", i, UplinkName)
    /\ UNCHANGED <<procs, sockets, dirs, tables, filterNext, natRules, natNext>>
    /\ UNCHANGED <<delPre, opVars, connVars>>
    /\ UNCHANGED extVars
    /\ UNCHANGED callVars
    /\ UNCHANGED pfVars

\* NetworkManager.delete_tap(tap_<i>): link del when check_tap_device finds it
NetDeleteTap(i) ==
    /\ taps' = IF TapExists(taps, i) THEN taps \ {i} ELSE taps
    /\ netRes' = "none"
    /\ netOp' = NetCall("delete_tap", i, UplinkName)
    /\ UNCHANGED <<procs, sockets, dirs, tables, filterRules, filterNext, natRules, natNext>>
    /\ UNCHANGED <<delPre, opVars, connVars>>
    /\ UNCHANGED extVars
    /\ UNCHANGED callVars
    /\ UNCHANGED pfVars

NextNet ==
    \/ \E i \in NetIds, n \in IfaceNames, fp \in FailPoints : NetCreateTap(i, n, fp)
    \/ \E i \in NetIds : NetCleanup(i)
    \/ \E i \in NetIds : NetDeleteTap(i)

\* sequential calls of one network provisioner on a host without VMs
SpecNet == Init /\ [][NextNet]_vars

(***************************************************************************)
(* add_nat_rules called directly.  The five add commands (table nat, chain *)
(* POSTROUTING, table filter, chain FORWARD, the forward rule) are one     *)
(* batch, handed to the rule engine in one json_cmd call; the engine       *)
(* applies a batch as a whole or not at all and answers with rc and an     *)
(* error text.                                                             *)
(***************************************************************************)
EngineAnswers == {"ok", "File exists", "Operation not permitted"}

\* an add_nat_rules that raises for every non-zero rc
FileExists_m(error) == FALSE

\* "File exists" in str(error)
FileExists(error) == error = "File exists"

\* add_nat_rules(tap_<i>, iface_name) on host state h, the rule engine
\* answering with error text resp ("ok": rc = 0)
AddNatRules(h, i, iface_name, resp) ==
    IF resp = "ok"
    THEN [h EXCEPT !.tables = @ \cup {"nat", "filter"},
                   !.filterRules = Append(@, ForwardRule(h.filterNext, TapName(i),
                                                         iface_name)),
                   !.filterNext = @ + 1]
         @@ [err |-> "none"]
    ELSE h @@ [err |-> IF FileExists(resp) THEN "none" ELSE "NetworkError"]

\* NetworkManager.add_nat_rules(tap_<i>, iface_name)
NetAddNatRules(i, iface_name, resp) ==
    /\ filterNext <= MaxFilterHandle
    /\ LET o == AddNatRules(NetHost, i, iface_name, resp)
       IN  /\ HostBecomes(o)
           /\ netRes' = o.err
    /\ netOp' = NetCall("add_nat_rules", i, iface_name) @@ [resp |-> resp]
    /\ UNCHANGED <<procs, sockets, dirs>>
    /\ UNCHANGED <<delPre, opVars, connVars>>
    /\ UNCHANGED extVars
    /\ UNCHANGED callVars
    /\ UNCHANGED pfVars

NextRules ==
    \/ \E i \in NetIds, n \in IfaceNames, resp \in EngineAnswers :
           NetAddNatRules(i, n, resp)
    \/ \E i \in NetIds : NetCleanup(i)

\* sequential add_nat_rules and cleanup calls of one network provisioner
SpecRules == Init /\ [][NextRules]_vars

(***************************************************************************)
(* Bridge mode.  One link name, self._config.bridge_name, can be a master; *)
(* the host either has no link of that name or one of kind bridge, vrf     *)
(* (takes ports without being a bridge) or dummy (takes none).             *)
(***************************************************************************)
BridgeKinds == {"absent", "bridge", "vrf", "dummy"}

\* ipr.link_lookup(ifname=dev) is not empty: the uplink, or a tap that exists
LinkExists(tps, dev) == dev = UplinkName \/ \E i \in tps : dev = TapName(i)

\* check_bridge_device(bridge_name): the link exists and IFLA_INFO_KIND is bridge
CheckBridgeDevice(kind) == kind = "bridge"

\* ipr.link('set', index=idx, master=bridge_idx) is accepted by the kernel
TakesPorts(kind) == kind \in {"bridge", "vrf"}

\* attach_tap_to_bridge(dev, bridge_name) with masters ms and taps tps. The
\* value of check_bridge_device is not used; link_lookup(...)[0] raises
\* IndexError for a missing link, link set raises when refused, and both
\* are re-raised as NetworkError.
AttachTapToBridge(ms, tps, kind, dev) ==
    IF kind = "absent" \/ ~LinkExists(tps, dev) \/ ~TakesPorts(kind)
    THEN [masters |-> ms, err |-> "NetworkError"]
    ELSE [masters |-> ms \cup {dev}, err |-> "none"]

\* create_tap(name=tap_<i>, iface_name, gateway_ip, bridge=True) on host state
\* h with masters ms: link add, attach_tap_to_bridge(iface_name, bridge_name),
\* set up, addr add; no rule is added. fp as in CreateTapOutcome.
CreateTapBridged(h, ms, kind, i, iface_name, fp) ==
    IF NameLength(iface_name) > iface_name_max
    THEN h @@ [err |-> "ValueError", reports |-> "iface_name", masters |-> ms]
    ELSE IF TapExists(h.taps, i)
    THEN h @@ [err |-> "none", reports |-> "none", masters |-> ms]
    ELSE IF fp = "link" \/ ~KernelNameOk(TapName(i))
    THEN TapFailed(h, i, "link") @@ [masters |-> ms]
    ELSE LET g == [h EXCEPT !.taps = @ \cup {i}]
             a == AttachTapToBridge(ms, g.taps, kind, iface_name)
         IN  IF a.err # "none"
             THEN TapFailed(g, i, "attach") @@ [masters |-> a.masters]
             ELSE IF fp = "addr"
             THEN TapFailed(g, i, "addr") @@ [masters |-> a.masters]
             ELSE g @@ [err |-> "none", reports |-> "none", masters |-> a.masters]

\* a host without VMs and with any kind of link under the bridge name
InitBr ==
    /\ procs = {}
    /\ sockets = {}
    /\ dirs = {}
    /\ taps = {}
    /\ tables \in SUBSET {"filter", "nat"}
    /\ filterRules = <<>>
    /\ filterNext = 1
    /\ natRules = <<>>
    /\ natNext = 1
    /\ IdleCall
    /\ IdlePf
    /\ delPre = NoPre
    /\ netOp = NoNetOp
    /\ netRes = "none"
    /\ vmState = [i \in Ids |-> "Running"]
    /\ opReq = NoReq
    /\ opRes = "none"
    /\ IdleConn
    /\ IdleFn
    /\ IdleHist
    /\ masters = {}
    /\ bridgeKind \in BridgeKinds
    /\ bridged = FALSE

BrFrame ==
    /\ UNCHANGED <<procs, sockets, dirs>>
    /\ UNCHANGED <<delPre, opVars, connVars>>
    /\ UNCHANGED <<fnVars, pollSock, raceVars, relayVars>>
    /\ UNCHANGED callVars
    /\ UNCHANGED pfVars

\* NetworkManager.create_tap(name=tap_<i>, iface_name=..., bridge=True)
BrCreateTap(i, iface_name, fp) ==
    /\ FpApplies(NetHost, i, fp)
    /\ fp \in {"none", "link", "addr"}
    /\ LET o == CreateTapBridged(NetHost, masters, bridgeKind, i, iface_name, fp)
       IN  /\ HostBecomes(o)
           /\ masters' = o.masters
           /\ netRes' = o.err
           /\ netReports' = o.reports
    /\ netOp' = NetCall("create_tap", i, iface_name)
    /\ bridged' = TRUE
    /\ UNCHANGED bridgeKind
    /\ BrFrame

\* NetworkManager.attach_tap_to_bridge(dev, self._config.bridge_name)
BrAttach(i, dev) ==
    /\ LET a == AttachTapToBridge(masters, taps, bridgeKind, dev)
       IN  /\ masters' = a.masters
           /\ netRes' = a.err
    /\ netOp' = NetCall("attach_tap_to_bridge", i, dev)
    /\ UNCHANGED <<taps, tables, filterRules, filterNext, natRules, natNext>>
    /\ UNCHANGED <<netReports, bridgeKind, bridged>>
    /\ BrFrame

NextBr ==
    \/ \E i \in Ids, n \in IfaceNames, fp \in FailPoints : BrCreateTap(i, n, fp)
    \/ \E i \in Ids, n \in IfaceNames, fp \in FailPoints : NetCreateTap(i, n, fp)
    \/ \E i \in Ids : BrAttach(i, TapName(i))
    \/ \E i \in Ids : BrAttach(i, UplinkName)

\* sequential create_tap and attach_tap_to_bridge calls of one provisioner
SpecBr == InitBr /\ [][NextBr]_vars

(***************************************************************************)
(* Concurrent create_tap calls.  Each VM's create_tap runs in its own      *)
(* thread or process, with its own NetworkManager; the host commands of    *)
(* two calls interleave freely, since create_tap and ensure_masquerade     *)
(* take no lock.  One action per host command of a call that succeeds.     *)
(***************************************************************************)
OtherUplink == <<8>>

RaceIfaces == {UplinkName, OtherUplink}

RaceFrame ==
    /\ UNCHANGED <<procs, sockets, dirs>>
    /\ UNCHANGED callVars
    /\ UNCHANGED pfVars
    /\ UNCHANGED <<delPre, netVars, opVars, connVars>>
    /\ UNCHANGED <<fnVars, pollSock, netReports, brVars, relayVars>>

\* create_tap(name=tap_<i>, iface_name) is called: check_tap_device(name)
RaceCall(i, iface_name) ==
    /\ tpc[i] = "idle"
    /\ tpc' = [tpc EXCEPT ![i] = IF TapExists(taps, i) THEN "done" ELSE "link"]
    /\ tiface' = [tiface EXCEPT ![i] = iface_name]
    /\ UNCHANGED thandle
    /\ UNCHANGED <<taps, tables, filterRules, filterNext, natRules, natNext>>
    /\ RaceFrame

\* ipr.link('add', ifname=name, kind='tuntap', mode='tap') and set up
RaceLinkAdd(i) ==
    /\ tpc[i] = "link"
    /\ taps' = taps \cup {i}
    /\ tpc' = [tpc EXCEPT ![i] = "rules"]
    /\ UNCHANGED <<tiface, thandle>>
    /\ UNCHANGED <<tables, filterRules, filterNext, natRules, natNext>>
    /\ RaceFrame

\* add_nat_rules(name, iface_name): tables, chains and the forward rule
RaceAddNatRules(i) ==
    /\ tpc[i] = "rules"
    /\ tables' = tables \cup {"nat", "filter"}
    /\ filterRules' = Append(filterRules,
                             ForwardRule(filterNext, TapName(i), tiface[i]))
    /\ filterNext' = filterNext + 1
    /\ tpc' = [tpc EXCEPT ![i] = "lookup"]
    /\ UNCHANGED <<tiface, thandle>>
    /\ UNCHANGED <<taps, natRules, natNext>>
    /\ RaceFrame

\* ensure_masquerade: handle = self.get_masquerade_handle(iface_name)
RaceLookup(i) ==
    /\ tpc[i] = "lookup"
    /\ thandle' = [thandle EXCEPT ![i] =
                     GetMasqueradeHandle(tables, natRules, IfaceVal(Head(tiface[i])))]
    /\ tpc' = [tpc EXCEPT ![i] = "ensure"]
    /\ UNCHANGED tiface
    /\ UNCHANGED <<taps, tables, filterRules, filterNext, natRules, natNext>>
    /\ RaceFrame

\* an ensure_masquerade that looks the rule up again when it adds it
MasqueradeMissing_m(handle, now) == handle = 0 /\ now = 0

\* ensure_masquerade: `if handle is not None: return handle`, on the handle
\* its own lookup returned; now is what a lookup would return at this moment
MasqueradeMissing(handle, now) == handle = 0

\* ensure_masquerade: the add command, unless the lookup found a rule
RaceEnsure(i) ==
    /\ tpc[i] = "ensure"
    /\ LET n == IfaceVal(Head(tiface[i]))
           add == MasqueradeMissing(thandle[i],
                                    GetMasqueradeHandle(tables, natRules, n))
       IN  /\ natRules' = IF add
                          THEN Append(natRules, MasqueradeRule(natNext, n))
                          ELSE natRules
           /\ natNext' = IF add THEN natNext + 1 ELSE natNext
    /\ tpc' = [tpc EXCEPT ![i] = "addr"]
    /\ UNCHANGED <<tiface, thandle>>
    /\ UNCHANGED <<taps, tables, filterRules, filterNext>>
    /\ RaceFrame

\* ipr.addr('add', ...): create_tap returns
RaceAddr(i) ==
    /\ tpc[i] = "addr"
    /\ tpc' = [tpc EXCEPT ![i] = "done"]
    /\ UNCHANGED <<tiface, thandle>>
    /\ UNCHANGED <<taps, tables, filterRules, filterNext, natRules, natNext>>
    /\ RaceFrame

NextRace ==
    \/ \E i \in Ids, n \in RaceIfaces : RaceCall(i, n)
    \/ \E i \in Ids : RaceLinkAdd(i)
    \/ \E i \in Ids : RaceAddNatRules(i)
    \/ \E i \in Ids : RaceLookup(i)
    \/ \E i \in Ids : RaceEnsure(i)
    \/ \E i \in Ids : RaceAddr(i)

\* one create_tap call per VM, running concurrently on a host without VMs
SpecRace == Init /\ [][NextRace]_vars

(***************************************************************************)
(* delete() and the aborted create()                                       *)
(***************************************************************************)
\* positions of create() inside its try block
InFlight ==
    {"spawn", "poll", "boot", "drive", "machine", "tap", "netput",
     "mmds_config", "mmds_data", "start", "portfwd"}

\* the caller aborts create() (KeyboardInterrupt): `except Exception` does
\* not catch it, so neither _spawn nor create() cleans up; the finally
\* clause of create() still closes self._api
CreateAbort ==
    /\ pc \in InFlight
    /\ pc' = "aborted"
    /\ result' = "aborted"
    /\ apiClosed' = TRUE
    /\ UNCHANGED <<cur, mmds, pfwd, retries, sockChecks, ready, calls, pfTried,
                   cause, surfaced>>
    /\ UNCHANGED hostVars
    /\ UNCHANGED pfVars
    /\ UNCHANGED auxVars

\* a guard that asks for running processes
NoVmms_m == procs = {}

\* if not self._vmm.list_vmms(): return "No VMMs available to delete"
NoVmms == ListVmms = {}

\* what VM i holds on the host
Holdings(i) ==
    [dir |-> i \in dirs, proc |-> i \in procs, sock |-> i \in sockets,
     tap |-> i \in taps,
     rule |-> \E k \in DOMAIN filterRules : filterRules[k].iifname = TapName(i)]

RECURSIVE DeleteRulesOf(_, _)
\* delete_nat_rules for the tap of every VM of set S
DeleteRulesOf(rules, S) ==
    IF S = {} THEN rules
    ELSE LET i == CHOOSE x \in S : TRUE
         IN  DeleteRulesOf(DeleteNatRules(rules, TapName(i)), S \ {i})

\* VMMManager.delete_vmms(): every registered VM is torn down
DeleteAllVmms ==
    /\ procs' = procs \ ListVmms
    /\ sockets' = sockets \ ListVmms
    /\ dirs' = dirs \ ListVmms
    /\ taps' = taps \ ListVmms
    /\ filterRules' = DeleteRulesOf(filterRules, ListVmms)
    /\ UNCHANGED <<tables, filterNext, natRules, natNext>>

\* a delete() that looks at `all` before it asks the registry
DeleteBranch_m(kw, nov, all) ==
    IF kw THEN "unexpected_kw"
    ELSE IF all THEN "all_deleted"
    ELSE IF nov THEN "no_vmms"
    ELSE "deleted"

\* the exit delete() takes: keyword check, empty registry, all, single id
DeleteBranch(kw, nov, all) ==
    IF kw THEN "unexpected_kw"
    ELSE IF nov THEN "no_vmms"
    ELSE IF all THEN "all_deleted"
    ELSE "deleted"

\* MicroVM.delete(id, all): id defaults to self._microvm_id, which is
\* always set, so the 'No VMM ID specified' return is never taken
Delete(i, all, kw) ==
    /\ pc = "idle"
    /\ pc' = "returned"
    /\ cur' = i
    /\ delPre' = Holdings(i)
    /\ LET b == DeleteBranch(kw, NoVmms, all)
       IN  /\ result' = b
           /\ IF b = "all_deleted" THEN DeleteAllVmms
              ELSE IF b = "deleted" THEN CleanupResources(i)
              ELSE UNCHANGED hostVars
    /\ UNCHANGED <<mmds, pfwd, retries, sockChecks, ready, calls, pfTried,
                   apiClosed, cause, surfaced>>
    /\ UNCHANGED pfVars
    /\ UNCHANGED <<netVars, opVars, connVars>>
    /\ UNCHANGED extVars

NextLife ==
    \/ Next
    \/ CreateAbort
    \/ \E i \in Ids, all \in BOOLEAN, kw \in BOOLEAN : Delete(i, all, kw)

\* one caller issuing create() and delete() calls, create() possibly aborted
SpecLife == Init /\ [][NextLife]_vars

\* port forwards for registered VMs, set up through MicroVM.port_forward or
\* through the provisioner, and delete() calls
NextMap ==
    \/ \E i \in ListVmms, hp \in ChainHostPorts, dp \in ChainDestPorts :
           AddPortForward(i, hp, dp)
    \/ \E i \in Ids, hp \in ChainHostPorts, dp \in ChainDestPorts,
          rm \in BOOLEAN, ipOk \in BOOLEAN : PortForward(i, hp, dp, rm, ipOk)
    \/ \E i \in Ids, all \in BOOLEAN, kw \in BOOLEAN : Delete(i, all, kw)

SpecMap == InitPF /\ [][NextMap]_vars

(***************************************************************************)
(* pause() and resume()                                                    *)
(***************************************************************************)
\* self._vmm.update_vmm_state(id, "Paused")
PauseRequest == "Paused"

\* self._vmm.update_vmm_state(id, "Resumed")
ResumeRequest == "Resumed"

\* VMMManager.update_vmm_state: the state the hypervisor is in after the
\* requested update ("Paused" pauses the VM, "Resumed" sets it running)
StateAfter(req, old) ==
    IF req = "Paused" THEN "Paused"
    ELSE IF req = "Resumed" THEN "Running"
    ELSE old

\* a handler that returns normally whatever the update did
StateOpResult_m(ok) == "returned"

\* try: return update_vmm_state(...) / except Exception: raise VMMError
StateOpResult(ok) == IF ok THEN "returned" ELSE "VMMError"

\* pause() or resume() of VM i asking for state req; ok: the hypervisor
\* accepts the update
StateOp(op, i, req, kw, ok) ==
    /\ IF kw
       THEN /\ opReq' = [NoReq EXCEPT !.op = op, !.id = i]
            /\ opRes' = "unexpected_kw"
            /\ UNCHANGED vmState
       ELSE /\ opReq' = [op |-> op, id |-> i, state |-> req,
                         ok |-> PutOk(i, ok), from |-> vmState[i]]
            /\ opRes' = StateOpResult(PutOk(i, ok))
            /\ vmState' = IF PutOk(i, ok)
                          THEN [vmState EXCEPT ![i] = StateAfter(req, @)]
                          ELSE vmState
    /\ UNCHANGED hostVars
    /\ UNCHANGED callVars
    /\ UNCHANGED pfVars
    /\ UNCHANGED <<delPre, netVars, connVars>>
    /\ UNCHANGED extVars

\* MicroVM.pause(id)
Pause(i, kw, ok) == StateOp("pause", i, PauseRequest, kw, ok)

\* MicroVM.resume(id)
Resume(i, kw, ok) == StateOp("resume", i, ResumeRequest, kw, ok)

NextOps ==
    \/ \E i \in Ids, kw \in BOOLEAN, ok \in BOOLEAN : Pause(i, kw, ok)
    \/ \E i \in Ids, kw \in BOOLEAN, ok \in BOOLEAN : Resume(i, kw, ok)

\* pause() and resume() calls on a host with running VMs
SpecOps == InitPF /\ [][NextOps]_vars

(***************************************************************************)
(* connect()                                                               *)
(***************************************************************************)
\* connect() is over: res is what the caller gets, by the event that ended it
ConnectEnds(res, by) == cpc' = "done" /\ cres' = [res |-> res, by |-> by]

\* connect() up to the retry loop: keyword check, key checks, registry checks
ConnectBegin(i, pre) ==
    /\ cpc = "idle"
    /\ IF pre = "kw"
       THEN ConnectEnds("unexpected_kw", "check")
       ELSE IF pre = "nokey"
       THEN ConnectEnds("no_key", "check")
       ELSE IF RegistryCheck(i) # "ok"
       THEN ConnectEnds(RegistryCheck(i), "check")
       ELSE cpc' = "ssh" /\ UNCHANGED cres
    /\ UNCHANGED <<attempts, sleeps, connected, shell, raw, old_settings>>
    /\ UNCHANGED hostVars
    /\ UNCHANGED callVars
    /\ UNCHANGED pfVars
    /\ UNCHANGED <<delPre, netVars, opVars>>
    /\ UNCHANGED extVars

\* a retry loop that gives up one refusal later: if retries > max_retries
SshExhausted_m(r) == r > ssh_max_retries

\* if retries >= max_retries: raise VMMError
SshExhausted(r) == r >= ssh_max_retries

\* one pass of the retry loop. out: the connection is made ("ok"), refused
\* (NoValidConnectionsError) or fails otherwise ("error", not retried).
\* Every earlier attempt was refused, so retries + 1 = attempts + 1.
SshAttempt(out) ==
    /\ cpc = "ssh"
    /\ attempts' = attempts + 1
    /\ IF out = "ok"
       THEN /\ connected' = TRUE
            /\ cpc' = "shell"
            /\ UNCHANGED <<sleeps, cres>>
       ELSE IF out = "refused"
       THEN /\ IF SshExhausted(attempts + 1)
               THEN ConnectEnds("VMMError", "refused") /\ UNCHANGED sleeps
               ELSE sleeps' = sleeps + 1 /\ UNCHANGED <<cpc, cres>>
            /\ UNCHANGED connected
       ELSE /\ ConnectEnds("VMMError", "error")
            /\ UNCHANGED <<sleeps, connected>>
    /\ UNCHANGED <<shell, raw, old_settings>>
    /\ UNCHANGED hostVars
    /\ UNCHANGED callVars
    /\ UNCHANGED pfVars
    /\ UNCHANGED <<delPre, netVars, opVars>>
    /\ UNCHANGED extVars

\* channel = self._ssh_client.invoke_shell()
InvokeShell(ok) ==
    /\ cpc = "shell"
    /\ shell' = TRUE
    /\ IF ok
       THEN cpc' = "tty" /\ UNCHANGED cres
       ELSE ConnectEnds("VMMError", "shell")
    /\ UNCHANGED <<attempts, sleeps, connected, raw, old_settings>>
    /\ UNCHANGED hostVars
    /\ UNCHANGED callVars
    /\ UNCHANGED pfVars
    /\ UNCHANGED <<delPre, netVars, opVars>>
    /\ UNCHANGED extVars

\* old_settings = termios.tcgetattr(sys.stdin); tty.setraw(sys.stdin), with
\* old_settings = None on termios.error (stdin is no terminal)
SetRaw(ok) ==
    /\ cpc = "tty"
    /\ cpc' = "relay"
    /\ old_settings' = ok
    /\ raw' = ok
    /\ UNCHANGED <<attempts, sleeps, connected, shell, cres>>
    /\ UNCHANGED hostVars
    /\ UNCHANGED callVars
    /\ UNCHANGED pfVars
    /\ UNCHANGED <<delPre, netVars, opVars>>
    /\ UNCHANGED extVars

\* the ways out of the relay loop: the remote shell exited, the channel
\* delivered no data, stdin reached end of input, there is no terminal
\* (sleep 5, break), or an exception
RelayExits ==
    IF old_settings
    THEN {"exit_status", "eof", "stdin_eof", "exception"}
    ELSE {"exit_status", "eof", "no_tty", "exception"}

\* a restore placed after the loop instead of in the finally clause
RestoresOn_m(ev) == ev # "exception"

\* finally: if old_settings: termios.tcsetattr(sys.stdin, TCSADRAIN, old_settings)
RestoresOn(ev) == TRUE

\* the relay loop ends by event ev; the except clause logs, the finally
\* clause restores the terminal and closes channel and client
RelayExit(ev) ==
    /\ cpc = "relay"
    /\ ev \in RelayExits
    /\ raw' = IF old_settings /\ RestoresOn(ev) THEN FALSE ELSE raw
    /\ ConnectEnds("closed", ev)
    /\ UNCHANGED <<attempts, sleeps, connected, shell, old_settings>>
    /\ UNCHANGED hostVars
    /\ UNCHANGED callVars
    /\ UNCHANGED pfVars
    /\ UNCHANGED <<delPre, netVars, opVars>>
    /\ UNCHANGED extVars

\* control is back at the caller; the terminal stays as connect() left it
ConnectReturns ==
    /\ cpc = "done"
    /\ cpc' = "idle"
    /\ attempts' = 0
    /\ sleeps' = 0
    /\ connected' = FALSE
    /\ shell' = FALSE
    /\ old_settings' = FALSE
    /\ cres' = NoCres
    /\ UNCHANGED raw
    /\ UNCHANGED hostVars
    /\ UNCHANGED callVars
    /\ UNCHANGED pfVars
    /\ UNCHANGED <<delPre, netVars, opVars>>
    /\ UNCHANGED extVars

NextConn ==
    \/ \E i \in Ids, pre \in {"kw", "nokey", "ok"} : ConnectBegin(i, pre)
    \/ \E out \in {"ok", "refused", "error"} : SshAttempt(out)
    \/ \E ok \in BOOLEAN : InvokeShell(ok)
    \/ \E ok \in BOOLEAN : SetRaw(ok)
    \/ \E ev \in {"exit_status", "eof", "stdin_eof", "no_tty", "exception"} : RelayExit(ev)
    \/ ConnectReturns

\* connect() calls on a host with running VMs
SpecConn == InitPF /\ [][NextConn]_vars

NextReg ==
    \/ NextConn
    \/ \E i \in Ids, hp \in ChainHostPorts, dp \in ChainDestPorts, rm \in BOOLEAN, ipOk \in BOOLEAN :
           PortForward(i, hp, dp, rm, ipOk)

\* connect() and port_forward() calls on a host with running VMs
SpecReg == InitPF /\ [][NextReg]_vars

(***************************************************************************)
(* The relay loop of connect(), pass by pass.  The inputs of a pass: rx,   *)
(* what the channel holds ("none": recv_ready() is false, "data", "empty": *)
(* recv returns zero bytes); tx, what stdin holds ("none": select times    *)
(* out, "char", "eof": read(1) returns ''); exc, a call of the pass        *)
(* raises. A remote exit status, once ready, stays ready.                  *)
(***************************************************************************)
\* Cap on the passes of one relay loop (bounds SpecRelay).
MaxRelayIters == 3

RelayRx == {"none", "data", "empty"}

RelayTx == {"none", "char", "eof"}

\* a loop body that writes whatever recv returned without testing its length
RelayEvent_m(exited, rx, tx, tty) ==
    IF exited THEN "exit_status"
    ELSE IF tty THEN (IF tx = "eof" THEN "stdin_eof" ELSE "continue")
    ELSE "no_tty"

\* one pass of the loop body: the break it takes, or "continue"
RelayEvent(exited, rx, tx, tty) ==
    IF exited THEN "exit_status"
    ELSE IF rx = "empty" THEN "eof"
    ELSE IF tty THEN (IF tx = "eof" THEN "stdin_eof" ELSE "continue")
    ELSE "no_tty"

RelayFrame ==
    /\ UNCHANGED <<attempts, sleeps, connected, shell, old_settings>>
    /\ UNCHANGED hostVars
    /\ UNCHANGED callVars
    /\ UNCHANGED pfVars
    /\ UNCHANGED <<delPre, netVars, opVars>>
    /\ UNCHANGED <<fnVars, pollSock, netReports, raceVars, brVars>>

\* the remote shell exits: channel.exit_status_ready() is true from now on
RemoteExits ==
    /\ cpc = "relay"
    /\ ~relay.exited
    /\ relay' = [relay EXCEPT !.exited = TRUE]
    /\ UNCHANGED <<cpc, cres, raw, sshClosed>>
    /\ RelayFrame

\* one pass of `while True`; a break or an exception runs the finally
\* clause: restore the terminal, channel.close(), self._ssh_client.close()
RelayPass(rx, tx, exc) ==
    /\ cpc = "relay"
    /\ relay.iters < MaxRelayIters
    /\ relay' = [iters |-> relay.iters + 1, exited |-> relay.exited,
                 rx |-> rx, tx |-> tx, exc |-> exc]
    /\ LET ev == IF exc THEN "exception"
                 ELSE RelayEvent(relay.exited, rx, tx, old_settings)
       IN  IF ev = "continue"
           THEN UNCHANGED <<cpc, cres, raw, sshClosed>>
           ELSE /\ raw' = IF old_settings /\ RestoresOn(ev) THEN FALSE ELSE raw
                /\ sshClosed' = TRUE
                /\ ConnectEnds("closed", ev)
    /\ RelayFrame

NextRelay ==
    \/ \E i \in Ids, pre \in {"kw", "nokey", "ok"} : ConnectBegin(i, pre)
    \/ \E out \in {"ok", "refused", "error"} : SshAttempt(out)
    \/ \E ok \in BOOLEAN : InvokeShell(ok)
    \/ \E ok \in BOOLEAN : SetRaw(ok)
    \/ RemoteExits
    \/ \E rx \in RelayRx, tx \in RelayTx, exc \in BOOLEAN : RelayPass(rx, tx, exc)

\* one connect() call on a host with running VMs
SpecRelay == InitPF /\ [][NextRelay]_vars

(***************************************************************************)
(* Pure functions and the constructor                                      *)
(***************************************************************************)
\* an IPv4 address as its four octets
V4(o) == [kind |-> "v4", o |-> o]

\* an IPv6 address as written: the groups before and after "::" (dc: the
\* text holds "::"); without "::" all eight groups are in head
V6(head, tail, dc) == [kind |-> "v6", head |-> head, tail |-> tail, dc |-> dc]

\* a text ipaddress.ip_address does not accept
BadIp(why) == [kind |-> "bad", why |-> why]

GwOctetsA == {10, 127}
GwOctetsB == {0, 5, 255}
GwOctetsC == {0, 3, 255}
GwOctetsD == {0, 1, 2, 77, 255}
GwGroups == {0, 1, 43981, 64768}

\* the drawn addresses by what is written in them; the address value is
\* built where a call takes it
V4Inputs == {<<a, b, c, d>> : a \in GwOctetsA, b \in GwOctetsB, c \in GwOctetsC, d \in GwOctetsD}

\* fd00::abcd, ::1, fd00::, fd00:0::abcd:1, and addresses of eight groups,
\* each as <<head, tail, dc>>
V6Inputs ==
    {<<h, t, TRUE>> : h \in {<<>>, <<64768>>, <<64768, 0>>},
                      t \in {<<>>} \cup {<<g>> : g \in GwGroups} \cup {<<43981, g>> : g \in GwGroups}}
    \cup {<<<<64768, 0, 0, 0, 0, 0, 43981, g>>, <<>>, FALSE>> : g \in GwGroups}

BadInputs == {"empty", "text", "octet_256", "three_octets"}

\* Op is called on some drawn address
OnGatewayInput(Op(_)) ==
    \/ \E o \in V4Inputs : Op(V4(o))
    \/ \E x \in V6Inputs : Op(V6(x[1], x[2], x[3]))
    \/ \E why \in BadInputs : Op(BadIp(why))

\* int(ip_obj) of an IPv4Address
IPv4ToInt(o) == o[1] * 16777216 + o[2] * 65536 + o[3] * 256 + o[4]

\* IPv4Address(n)
IntToIPv4(n) == <<n \div 16777216, (n \div 65536) % 256, (n \div 256) % 256, n % 256>>

\* a mask that clears sixteen bits: n & 0xFFFF0000
MaskLow_m(n) == n - (n % 65536)

\* n & 0xFFFFFF00
MaskLow(n) == n - (n % 256)

\* n | 1
OrOne(n) == IF n % 2 = 0 THEN n + 1 ELSE n

Zeros(k) == [j \in 1..k |-> 0]

\* ip_obj.exploded.split(':'): the eight groups of the address
Exploded(a) == IF a.dc THEN a.head \o Zeros(8 - Len(a.head) - Len(a.tail)) \o a.tail ELSE a.head

\* an address given by its eight groups
V6Full(g) == V6(g, <<>>, FALSE)

Returned(v) == [kind |-> "returned", v |-> v]

RaisedKind(k) == [kind |-> "raised", v |-> k]

\* NetworkManager.get_gateway_ip(ip)
GetGatewayIp(ip) ==
    IF ip.kind = "v4"
    THEN Returned(V4(IntToIPv4(OrOne(MaskLow(IPv4ToInt(ip.o))))))
    ELSE IF ip.kind = "v6"
    THEN LET segments == Exploded(ip)
         IN  Returned(V6Full([segments EXCEPT ![Len(segments)] = 1]))
    ELSE RaisedKind("NetworkError")

\* a call of function op on argument a that ended with r
Applied(op, a, r) ==
    /\ fnOp' = op
    /\ fnArg' = a
    /\ fnRes' = r
    /\ UNCHANGED hostVars
    /\ UNCHANGED callVars
    /\ UNCHANGED pfVars
    /\ UNCHANGED <<delPre, netVars, opVars, connVars>>
    /\ UNCHANGED moreVars

ApplyGetGatewayIp(ip) == Applied("get_gateway_ip", ip, GetGatewayIp(ip))

\* utils.validate_ip_address(ip_addr): socket.inet_aton reads IPv4 text only,
\* four parts are required, and a last part '0' is refused
ValidateIpAddress(ip) ==
    IF ip.kind # "v4" THEN RaisedKind("Exception")
    ELSE IF ip.o[4] = 0 THEN RaisedKind("Exception")
    ELSE Returned(TRUE)

\* __init__ on the address of the descriptor: the gateway is derived when
\* the address is read, the address is validated in the validation block;
\* the result holds self._ip_addr and self._gateway_ip
IpConfig(ip) ==
    LET gw == GetGatewayIp(ip)
    IN  IF gw.kind = "raised" THEN gw
        ELSE IF ValidateIpAddress(ip).kind = "raised" THEN ValidateIpAddress(ip)
        ELSE [kind |-> "returned", ip_addr |-> ip, gateway_ip |-> gw.v]

ApplyIpConfig(ip) == Applied("ip_config", ip, IpConfig(ip))

\* the boot-argument string as the sequence of its space-terminated parts:
\* "console=ttyS0 reboot=k panic=1 pci=off "
ConsoleArgs == [tok |-> "console"]

\* "ds=nocloud-net;s=http://<mmds_ip>/latest/ "
DsArg(mmds_ip) == [tok |-> "ds", mmds_ip |-> mmds_ip]

\* "ip=<ip>::<gateway>:255.255.255.0:<hostname>:<iface>:off "
IpArg(ip, gw, hostname, iface_name) ==
    [tok |-> "ip", ip |-> ip, gw |-> gw, hostname |-> hostname, iface |-> iface_name]

BootHostnames == {"fc-vm", "web"}
BootIfaces == {"eth0", "ens3"}
BootIps == {V4(<<10, 5, 3, 77>>), V4(<<127, 0, 0, 2>>)}
MmdsIps == {V4(<<127, 255, 255, 255>>), V4(<<10, 0, 0, 1>>)}

\* the fields of the descriptor _boot_args reads
BootInputs ==
    {[kind |-> "boot", mmds_enabled |-> m, mmds_ip |-> mi, ip_addr |-> ip,
      hostname |-> h, iface_name |-> n] :
        m \in BOOLEAN, mi \in MmdsIps, ip \in BootIps, h \in BootHostnames, n \in BootIfaces}

\* MicroVM._boot_args; self._gateway_ip is get_gateway_ip(self._ip_addr)
BootArgs(a) ==
    LET ip == IpArg(a.ip_addr, GetGatewayIp(a.ip_addr).v, a.hostname, a.iface_name)
    IN  IF a.mmds_enabled
        THEN <<ConsoleArgs, DsArg(a.mmds_ip), ip>>
        ELSE <<ConsoleArgs, ip>>

ApplyBootArgs(a) == Applied("boot_args", a, Returned(BootArgs(a)))

\* a Python value with its type; v is a sequence of numbers: <<n>> for an
\* int, the characters for a str (1: letter or digit, 2: '-', 3: any other)
PyInt(n) == [t |-> "int", v |-> <<n>>]
PyStr(s) == [t |-> "str", v |-> s]
PyNone == [t |-> "none", v |-> <<>>]

\* the fields of the MicroVMConfig dataclass
ConfigFields ==
    {"data_path", "binary_path", "kernel_file", "initrd_file", "init_file",
     "base_rootfs", "overlayfs", "overlayfs_file", "ip_addr", "bridge",
     "bridge_name", "mmds_enabled", "mmds_ip", "user_data", "vcpu", "memory",
     "hostname", "verbose", "level", "ssh_user", "expose_ports", "host_port",
     "dest_port"}

\* MicroVMConfig(): the defaults of the fields the constructor validates
ConfigDefault(f) ==
    IF f = "vcpu" THEN PyInt(1)
    ELSE IF f = "memory" THEN PyInt(512)
    ELSE IF f = "hostname" THEN PyStr(<<1, 1, 2, 1, 1>>)
    ELSE IF f \in {"base_rootfs", "initrd_file", "overlayfs_file", "user_data",
                   "host_port", "dest_port"} THEN PyNone
    ELSE PyStr(<<1>>)

\* for key, value in kwargs.items(): if hasattr(config, key): setattr(...)
ApplyKwargs(kw) ==
    [f \in ConfigFields |-> IF f \in DOMAIN kw THEN kw[f] ELSE ConfigDefault(f)]

\* the name an error message mentions
RaisedNaming(k, name) == [kind |-> "raised", v |-> k, names |-> name]

\* self._config.<name>: AttributeError when the dataclass has no such field
ConfigGet(cfg, name) ==
    IF name \in DOMAIN cfg THEN Returned(cfg[name])
    ELSE RaisedNaming("AttributeError", name)

\* validate_hostname: ^[a-zA-Z0-9]([a-zA-Z0-9\-]{0,61}[a-zA-Z0-9])?$
HostnameOk(h) ==
    /\ Len(h) >= 1
    /\ Len(h) <= hostname_max
    /\ h[1] = 1
    /\ h[Len(h)] = 1
    /\ \A k \in DOMAIN h : h[k] \in {1, 2}

\* a memory check with the wrong threshold: self._mem_size_mib <= 0
MemTooSmall_m(m) == m <= 0

\* self._mem_size_mib < 128
MemTooSmall(m) == m < mem_size_min

\* the validation block of __init__ on the descriptor fields d; ipOk:
\* validate_ip_address accepts the address; kernelOk, rootfsOk: the files exist
ValidateDescriptor(d) ==
    IF d.vcpu.t # "int" \/ d.vcpu.v[1] <= 0
    THEN RaisedNaming("ValueError", "vcpu")
    ELSE IF d.mem.t # "int" \/ MemTooSmall(d.mem.v[1])
    THEN RaisedNaming("ValueError", "mem_size_mib")
    ELSE IF d.hostname.v # <<>> /\ ~HostnameOk(d.hostname.v)
    THEN RaisedNaming("ValueError", "hostname")
    ELSE IF ~d.ipOk
    THEN RaisedNaming("Exception", "ip_addr")
    ELSE IF ~d.kernelOk \/ ~d.rootfsOk
    THEN RaisedNaming("ConfigurationError", "file")
    ELSE Returned(d)

\* MicroVM.__init__(id, **kwargs): overlay of kwargs onto the defaults, the
\* reads of the configuration in statement order, then the validation block
Construct(kw) ==
    LET cfg == ApplyKwargs(kw)
        vcpu == ConfigGet(cfg, "vcpu_count")
        mem == ConfigGet(cfg, "mem_size_mib")
        pf == ConfigGet(cfg, "port_forwarding")
    IN  IF cfg["base_rootfs"].t # "str"
        THEN RaisedNaming("AttributeError", "replace")
        ELSE IF vcpu.kind = "raised" THEN vcpu
        ELSE IF mem.kind = "raised" THEN mem
        ELSE IF pf.kind = "raised" THEN pf
        ELSE ValidateDescriptor([vcpu |-> vcpu.v, mem |-> mem.v,
                                 hostname |-> IF cfg["hostname"].v # <<>>
                                              THEN cfg["hostname"] ELSE PyStr(<<1>>),
                                 ipOk |-> TRUE, kernelOk |-> TRUE, rootfsOk |-> TRUE])

KwKeys == {"vcpu", "vcpu_count", "memory", "mem_size_mib", "hostname", "base_rootfs", "foo"}

NumValues == {PyInt(0), PyInt(64), PyInt(128)}

HostValues == {PyStr(<<2, 1>>), PyStr(<<1, 2, 1>>)}

KwValues(k) ==
    IF k = "hostname" THEN HostValues
    ELSE IF k \in {"base_rootfs", "foo"} THEN {PyStr(<<1>>)}
    ELSE NumValues

\* keyword arguments of at most MaxKwargs keys
KwInputs ==
    UNION {{kw \in [S -> NumValues \cup HostValues \cup {PyStr(<<1>>)}] :
                \A k \in S : kw[k] \in KwValues(k)} :
           S \in {T \in SUBSET KwKeys : Cardinality(T) <= MaxKwargs}}

DescriptorInputs ==
    {[vcpu |-> c, mem |-> m, hostname |-> h, ipOk |-> i, kernelOk |-> k, rootfsOk |-> r] :
        c \in {PyInt(0 - 1), PyInt(0), PyInt(1), PyStr(<<1>>)},
        m \in {PyInt(64), PyInt(127), PyInt(128), PyInt(512), PyStr(<<1>>)},
        h \in {PyStr(<<>>), PyStr(<<1>>), PyStr(<<2, 1>>), PyStr(<<1, 2>>),
               PyStr(<<1, 2, 1>>), PyStr(<<1, 3, 1>>)},
        i \in BOOLEAN, k \in BOOLEAN, r \in BOOLEAN}

ApplyConstruct(kw) == Applied("construct", [kind |-> "kwargs", kw |-> kw], Construct(kw))

ApplyValidate(d) == Applied("validate", [kind |-> "descriptor", d |-> d], ValidateDescriptor(d))

NextFn ==
    \/ OnGatewayInput(ApplyGetGatewayIp)
    \/ \E a \in BootInputs : ApplyBootArgs(a)
    \/ \E kw \in KwInputs : ApplyConstruct(kw)
    \/ \E d \in DescriptorInputs : ApplyValidate(d)

\* the pure functions and the constructor, applied to drawn arguments
SpecFn == Init /\ [][NextFn]_vars

NextAddr == OnGatewayInput(ApplyIpConfig)

\* the address handling of the constructor, applied to drawn addresses
SpecAddr == Init /\ [][NextAddr]_vars

(***************************************************************************)
(* generate_id (utils.py 54-62).  A character is its code point.  The      *)
(* generator expression is a loop of range(8) iterations, each appending   *)
(* random.choice(chars); the join returns once the range is exhausted.     *)
(* random.choice is a free choice of an index of chars; the indices drawn  *)
(* are the ends of the two runs of the alphabet: 'a', 'z', '0', '9'.       *)
(***************************************************************************)
ascii_lowercase == [k \in 1..26 |-> 96 + k]

digits == [k \in 1..10 |-> 47 + k]

chars == ascii_lowercase \o digits

ChoiceIndices == {1, 26, 27, 36}

id_length == 8

\* a loop that stops one draw early
RangeExhausted_m(s) == Len(s) + 1 >= id_length

\* range(8) is exhausted: the join has consumed id_length draws
RangeExhausted(s) == Len(s) = id_length

Partial(s) == [kind |-> "partial", v |-> s]

Pending == [kind |-> "pending"]

GenerateIdCall ==
    /\ fnOp \in {"none", "generate_id"}
    /\ fnRes.kind # "pending"
    /\ Applied("generate_id", Partial(<<>>), Pending)

GenerateIdChoice ==
    /\ fnOp = "generate_id"
    /\ fnRes.kind = "pending"
    /\ ~RangeExhausted(fnArg.v)
    /\ \E k \in ChoiceIndices :
         Applied("generate_id", Partial(Append(fnArg.v, chars[k])), Pending)

GenerateIdReturn ==
    /\ fnOp = "generate_id"
    /\ fnRes.kind = "pending"
    /\ RangeExhausted(fnArg.v)
    /\ Applied("generate_id", fnArg, Returned(fnArg.v))

NextId ==
    \/ GenerateIdCall
    \/ GenerateIdChoice
    \/ GenerateIdReturn

SpecId == Init /\ [][NextId]_vars

(***************************************************************************)
(* Properties of create()                                                  *)
(***************************************************************************)
\* nothing of VM i is left on the host
NoResidue(i) ==
    /\ i \notin procs
    /\ i \notin sockets
    /\ i \notin dirs
    /\ i \notin taps
    /\ \A k \in 1..Len(filterRules) : filterRules[k].iifname # TapName(i)

\* C1: when create() surfaces an error, no process, socket file, directory,
\* tap device or tap-scoped forward rule of that VM id remains.
C1_RollbackComplete == pc = "raised" => NoResidue(cur)

\* C2: create() for an id whose socket file exists or that the registry
\* lists returns the 'already exists' result, issues no control-plane call,
\* spawns nothing and leaves the host state as it was.
C2_ExistingVmUntouched ==
    [][(/\ pc = "idle"
        /\ pc' # "idle"
        /\ result' # "unexpected_kw"
        /\ (cur' \in sockets \/ cur' \in ListVmms))
       => (/\ pc' = "returned"
           /\ result' = "exists"
           /\ calls' = <<>>
           /\ UNCHANGED hostVars)]_vars

\* create() answered 'already exists' for a running, fully provisioned VM
C2_Witness ==
    /\ pc = "returned"
    /\ result = "exists"
    /\ cur \in procs
    /\ cur \in taps

\* the control-plane calls of one create(), in their fixed order
ExpectedCalls(m) ==
    <<"boot", "drive", "machine", "network">>
        \o (IF m THEN <<"mmds_config", "mmds">> ELSE <<>>) \o <<"start">>

CallNames == [k \in 1..Len(calls) |-> calls[k].ep]

\* C3: calls are issued only after the socket was seen, in the order boot
\* source, root drive, machine resources, network interface, metadata
\* service (exactly when enabled), start; no call follows a failed call, and
\* the port-forward step is reached only after a successful start.
C3_CallOrder ==
    /\ IsPrefix(CallNames, ExpectedCalls(mmds))
    /\ (calls # <<>> => ready)
    /\ \A k \in 1..(Len(calls) - 1) : calls[k].ok
    /\ (pc = "portfwd" \/ pfTried)
           => (CallNames = ExpectedCalls(mmds) /\ calls[Len(calls)].ok)

\* a create() with the metadata service enabled has issued all seven calls
\* and stands at its port-forward step
C3_Witness ==
    /\ pc = "portfwd"
    /\ mmds
    /\ Len(calls) = 7
    /\ \A k \in 1..7 : calls[k].ok

\* C4: whenever create() hands control back, the control-plane connection
\* has been closed.
C4_AlwaysClosed == pc \in {"returned", "raised"} => apiClosed

\* C5: the readiness poll never checks the socket more than 3 times; when it
\* runs out it has checked exactly 3 times without seeing the socket and
\* fails with an API error; readiness is reported only with the socket there.
C5_ReadinessBound ==
    /\ sockChecks <= 3
    /\ (pc = "poll" /\ retries >= 3) => (sockChecks = 3 /\ ~ready)
    /\ (pc = "raised" /\ cause = "APIError" /\ calls = <<>>)
           => (sockChecks = 3 /\ ~ready)
    /\ (pc = "raised" /\ calls = <<>> /\ sockChecks = 3) => cause = "APIError"
    /\ (ready => cur \in sockets)

\* the poll gave up after three socket checks while the process was alive
C5_Witness ==
    /\ pc = "raised"
    /\ cause = "APIError"
    /\ calls = <<>>
    /\ sockChecks = 3

\* the kind the caller is meant to see for a failure of kind k
SpecifiedKind(k) ==
    IF k \in {"ConfigurationError", "ProcessError"} THEN k ELSE "VMMError"

\* C6: a failed create() reports a configuration failure as a configuration
\* error, a hypervisor that exited before readiness as a process error, and
\* only other failures as a VM-management error.
C6_KindKept == pc = "raised" => surfaced = SpecifiedKind(cause)

(***************************************************************************)
(* Properties of port forwarding                                           *)
(***************************************************************************)
\* number of DNAT rules of the mapping (HostIp, hp) -> (ip of VM i, dp)
DnatCount(rules, i, hp, dp) ==
    Cardinality({k \in 1..Len(rules) :
        IsPreroutingMatch(rules[k], HostIp, PortVal(hp), VmIp(i), PortVal(dp))})

\* number of return-path masquerade rules for the address of VM i
ReturnPathCount(rules, i) ==
    Cardinality({k \in 1..Len(rules) : IsPostroutingMatch(rules[k], VmIp(i))})

\* C7: from a table in which the lookup finds no rule for a mapping, adding
\* the mapping and then deleting it leaves a table in which the lookup again
\* finds neither a prerouting nor a postrouting rule for it.
C7_RoundTrip ==
    rt.st = "deleted" =>
        LET h == GetPortForwardHandles(tables, natRules, HostIp, PortVal(rt.hp),
                                       VmIp(rt.id), PortVal(rt.dp))
        IN  h.ok /\ h.prerouting = 0 /\ h.postrouting = 0

\* a round trip has completed while the nat table holds other rules
C7_Witness == rt.st = "deleted" /\ pfRes = "ok" /\ natNext > 2 /\ natRules # <<>>

\* C8: however often a mapping is added, the table holds one DNAT rule for it.
C8_AddIdempotent ==
    \A i \in Ids, hp \in HostPorts, dp \in DestPorts :
        DnatCount(natRules, i, hp, dp) <= 1

\* C9: delete_port_forward for a mapping that is not in the table leaves the
\* table as it was.
C9_DeleteAbsentIsNoOp ==
    [][(/\ pfOp'.op = "delete"
        /\ DnatCount(natRules, pfOp'.id, pfOp'.hp, pfOp'.dp) = 0)
       => natRules' = natRules]_vars

\* C10: after port_forward(id, hp, dp) reported forwarding as active, the
\* DNAT rule (host ip, hp) -> (ip of VM id, dp) and the return-path rule for
\* that VM's address are in the table.
C10_PortForwardInstalls ==
    (pfOp.op = "pf_add" /\ pfRes = "active")
        => (/\ DnatCount(natRules, pfOp.id, pfOp.hp, pfOp.dp) >= 1
            /\ ReturnPathCount(natRules, pfOp.id) >= 1)

(***************************************************************************)
(* Properties of the network provisioner                                   *)
(***************************************************************************)
\* the masquerade rules table ip nat holds for the outbound interface n
MasqueradeRulesFor(rules, n) ==
    {k \in DOMAIN rules : rules[k].masq /\ rules[k].oifname = n}

\* C11: after any sequence of sequential create_tap and cleanup calls for
\* VMs sharing one uplink, table ip nat holds at most one masquerade rule
\* for that uplink.
C11_SingleMasquerade ==
    Cardinality(MasqueradeRulesFor(natRules, IfaceVal(Head(UplinkName)))) <= 1

\* both VMs hold a tap on the uplink, one of them created after a cleanup,
\* and one masquerade rule serves them
C11_Witness ==
    /\ taps = Ids
    /\ netOp.op = "create_tap"
    /\ netRes = "none"
    /\ filterNext > 3
    /\ Cardinality(MasqueradeRulesFor(natRules, IfaceVal(Head(UplinkName)))) = 1

\* C12: create_tap for a tap name whose device already exists performs no
\* host mutation (no link add, no rule add, no address add); the link table
\* is keyed by name, so each VM id has at most one tap device.
C12_ExistingTapUntouched ==
    [][(netOp'.op = "create_tap" /\ netOp'.id \in taps) => UNCHANGED hostVars]_vars

\* create_tap returned for a VM whose tap and forward rule were already there
C12_Witness ==
    /\ netOp.op = "create_tap"
    /\ netOp.had
    /\ netRes = "none"
    /\ netOp.id \in taps
    /\ \E k \in DOMAIN filterRules : filterRules[k].iifname = TapName(netOp.id)

\* C13: cleanup or delete_tap for a tap name whose device does not exist
\* changes nothing on the host.
C13_AbsentTeardownIsNoOp ==
    [][(netOp'.op \in {"cleanup", "delete_tap"} /\ netOp'.id \notin taps)
       => UNCHANGED hostVars]_vars

DeleteStep == pc = "idle" /\ pc' = "returned" /\ result' \in {"deleted", "all_deleted", "no_vmms"}

C14_WitnessTap ==
    /\ pc = "returned"
    /\ result = "deleted"
    /\ delPre.dir /\ delPre.tap /\ delPre.rule /\ ~delPre.proc
    /\ NoResidue(cur)

\* C15: delete(id) removes only the resources of VM id: every other VM keeps
\* its process, socket file, directory, tap device and tap-scoped rules.
C15_DeleteFrame ==
    [][(DeleteStep /\ result' = "deleted")
       => \A j \in Ids \ {cur'} : (Holdings(j))' = Holdings(j)]_vars

\* C16: when the registry lists no VM, delete(id) and delete(all=true)
\* return the 'no VMs available' message and perform no teardown.
C16_EmptyRegistryNoTeardown ==
    [][(DeleteStep /\ ListVmms = {})
       => (result' = "no_vmms" /\ UNCHANGED hostVars)]_vars

\* delete() answered 'no VMs available' on a host that had held VMs before
C16_Witness ==
    /\ pc = "returned"
    /\ result = "no_vmms"
    /\ ListVmms = {}
    /\ filterNext > 1

C17_WitnessFailure ==
    /\ opReq.op = "pause"
    /\ opReq.state = "Paused"
    /\ ~opReq.ok
    /\ opRes = "VMMError"

\* C18: connect() makes at most 3 SSH connection attempts, waits 2 seconds
\* after a refused attempt and retries, stops at the first success, raises
\* VMMError after the third refused attempt without a fourth one, and opens
\* no shell unless an attempt succeeded.
C18_BoundedRetry ==
    /\ attempts <= 3
    /\ shell => connected
    /\ connected => cpc # "ssh" /\ sleeps = attempts - 1
    /\ cpc = "ssh" => sleeps = attempts
    /\ cres.by = "refused" =>
           /\ cres.res = "VMMError"
           /\ attempts = 3
           /\ sleeps = 2
           /\ ~connected
           /\ ~shell

\* connect() gave up after three refused attempts
C18_Witness ==
    /\ cpc = "done"
    /\ cres = [res |-> "VMMError", by |-> "refused"]
    /\ attempts = 3

\* the third attempt succeeded and the shell was opened
C18_WitnessShell ==
    /\ shell
    /\ connected
    /\ attempts = 3
    /\ sleeps = 2

\* C19: whenever connect() has put the terminal into raw mode, the saved
\* settings are restored before connect() returns or raises, on every exit
\* path of the relay loop.
C19_TerminalRestored == cpc = "done" => ~raw

\* the relay loop ended by an exception after raw mode had been set
C19_Witness ==
    /\ cpc = "done"
    /\ cres = [res |-> "closed", by |-> "exception"]
    /\ old_settings
    /\ ~raw

(***************************************************************************)
(* Properties of the pure functions and of the constructor                 *)
(***************************************************************************)
\* the written address a with its final colon-separated segment replaced
\* by 1 (a text ending in "::" gets the 1 as its last group)
LastSegmentOne(a) ==
    IF a.dc
    THEN V6(a.head, IF a.tail = <<>> THEN <<1>> ELSE [a.tail EXCEPT ![Len(a.tail)] = 1], TRUE)
    ELSE V6([a.head EXCEPT ![Len(a.head)] = 1], <<>>, FALSE)

\* C21: get_gateway_ip maps every IPv4 address a.b.c.d to a.b.c.1, every
\* IPv6 address to the same address with its final segment replaced by 1,
\* and raises NetworkError for any input that is not a valid IP address.
C21_GatewayDerivation ==
    fnOp = "get_gateway_ip" =>
        /\ fnArg.kind = "v4" =>
               fnRes = Returned(V4(<<fnArg.o[1], fnArg.o[2], fnArg.o[3], 1>>))
        /\ fnArg.kind = "v6" =>
               /\ fnRes.kind = "returned"
               /\ Exploded(fnRes.v) = Exploded(LastSegmentOne(fnArg))
        /\ fnArg.kind = "bad" => fnRes = RaisedKind("NetworkError")

\* 10.5.3.77 was mapped to 10.5.3.1
C21_Witness ==
    /\ fnOp = "get_gateway_ip"
    /\ fnArg = V4(<<10, 5, 3, 77>>)
    /\ fnRes = Returned(V4(<<10, 5, 3, 1>>))

\* fd00::abcd was mapped to fd00::1
C21_WitnessV6 ==
    /\ fnOp = "get_gateway_ip"
    /\ fnArg = V6(<<64768>>, <<43981>>, TRUE)
    /\ fnRes = Returned(V6Full(<<64768, 0, 0, 0, 0, 0, 0, 1>>))

\* the template of the boot-argument string for the fields of a
BootTemplate(a) ==
    <<ConsoleArgs,
      IpArg(a.ip_addr, V4(<<a.ip_addr.o[1], a.ip_addr.o[2], a.ip_addr.o[3], 1>>),
            a.hostname, a.iface_name)>>

\* C22: the boot-argument string is exactly the template when the metadata
\* service is disabled, and the ds= token followed by that complete
\* template when it is enabled.
C22_BootArgsTemplate ==
    fnOp = "boot_args" =>
        fnRes.v = IF fnArg.mmds_enabled
                  THEN <<DsArg(fnArg.mmds_ip)>> \o BootTemplate(fnArg)
                  ELSE BootTemplate(fnArg)

\* the descriptor fields d break one of the three rules of C23
BadDescriptor(d) ==
    \/ d.mem.t = "int" /\ d.mem.v[1] < 128
    \/ d.vcpu.t = "int" /\ d.vcpu.v[1] <= 0
    \/ d.hostname.v # <<>> /\ d.hostname.v[1] = 2

\* C23: a descriptor with memory below 128 MiB, with a vCPU count that is
\* zero or negative, or with a hostname starting with '-' is rejected at
\* construction: the validation block raises for such fields, and no
\* constructor call returns a descriptor that has them.
C23_InvalidRejected ==
    /\ (fnOp = "validate" /\ BadDescriptor(fnArg.d)) => fnRes.kind = "raised"
    /\ (fnOp = "construct" /\ fnRes.kind = "returned") => ~BadDescriptor(fnRes.v)

\* the validation block rejected a memory size of 64 MiB with everything
\* else valid
C23_Witness ==
    /\ fnOp = "validate"
    /\ fnArg.d.mem = PyInt(64)
    /\ fnArg.d.vcpu = PyInt(1)
    /\ fnArg.d.hostname = PyStr(<<1, 2, 1>>)
    /\ fnRes = RaisedNaming("ValueError", "mem_size_mib")

\* the validation block rejected the hostname "-a"
C23_WitnessHostname ==
    /\ fnOp = "validate"
    /\ fnArg.d.hostname = PyStr(<<2, 1>>)
    /\ fnRes = RaisedNaming("ValueError", "hostname")

\* C24: constructing a MicroVM with a keyword that is not a recognized
\* configuration option is rejected with an error naming that key.
C24_UnknownKeyRejected ==
    fnOp = "construct" =>
        \A k \in DOMAIN fnArg.kw \ ConfigFields :
            fnRes.kind = "raised" /\ fnRes.names = k

IsLowercase(c) == c \in 97..122

IsDigit(c) == c \in 48..57

\* C25: every identifier generate_id returns, at any call, has exactly 8
\* characters and each of them is a lowercase letter a-z or a digit 0-9.
C25_GeneratedIdShape ==
    (fnOp = "generate_id" /\ fnRes.kind = "returned") =>
        /\ Len(fnRes.v) = 8
        /\ \A k \in 1..Len(fnRes.v) : IsLowercase(fnRes.v[k]) \/ IsDigit(fnRes.v[k])

\* an identifier mixing letters and digits was returned
C25_Witness ==
    /\ fnOp = "generate_id"
    /\ fnRes.kind = "returned"
    /\ \E k \in 1..Len(fnRes.v) : IsLowercase(fnRes.v[k])
    /\ \E k \in 1..Len(fnRes.v) : IsDigit(fnRes.v[k])

(***************************************************************************)
(* Properties of the readiness poll and of error handling                  *)
(***************************************************************************)
\* a step of the readiness loop (one pass of its body)
PollStep ==
    /\ pc = "poll"
    /\ ~PollExhausted(retries)
    /\ (pc' # pc \/ retries' # retries \/ sockChecks' # sockChecks)

\* C26: a poll attempt that finds the process dead ends create() with a
\* process error at that attempt: the socket file is not looked at and no
\* client is bound, whether or not the socket file is present.
C26_LivenessBeforeSocket ==
    [][(PollStep /\ cur \notin procs) =>
          /\ pc' = "raised"
          /\ cause' = "ProcessError"
          /\ sockChecks' = sockChecks
          /\ ready' = FALSE]_vars

\* the poll raised the process error although the socket file was there
C26_Witness ==
    /\ pc = "raised"
    /\ cause = "ProcessError"
    /\ pollSock
    /\ ~ready

\* the commands of create_tap whose failure enters its except clause
TapCauses == {"link", "rules", "addr"}

\* C27: the error of a create_tap whose command failed reports that
\* failure, also when the cleanup run by the handler fails in turn.
C27_OriginalCauseKept ==
    (netOp.op = "create_tap" /\ netRes = "NetworkError") => netReports \in TapCauses

(***************************************************************************)
(* Properties of concurrent create_tap calls                               *)
(***************************************************************************)
\* C28: nothing serializes lookup and creation of the masquerade rule: a
\* call whose own lookup found no rule adds one, whatever another call has
\* installed since; so two concurrent calls for different VMs on the same
\* uplink can leave two masquerade rules for it.
C28_LookupThenCreateRace ==
    [][\A i \in Ids :
          (tpc[i] = "ensure" /\ tpc'[i] = "addr" /\ thandle[i] = 0) =>
              /\ Len(natRules') = Len(natRules) + 1
              /\ IsMasqueradeFor(natRules'[Len(natRules')], IfaceVal(Head(tiface[i])))]_vars

\* both calls have returned and the uplink has two masquerade rules
C28_Witness ==
    /\ \A i \in Ids : tpc[i] = "done"
    /\ tiface[IdA] = tiface[IdB]
    /\ Cardinality(MasqueradeRulesFor(natRules, IfaceVal(Head(UplinkName)))) = 2

(***************************************************************************)
(* Properties of bridge mode                                               *)
(***************************************************************************)
\* a create_tap that made the device of its VM has returned
TapCreated == netOp.op = "create_tap" /\ netRes = "none" /\ ~netOp.had

\* table ip filter holds the forward rule (tap, uplink) of the call
HasForwardRule ==
    \E k \in DOMAIN filterRules :
        /\ filterRules[k].iifname = TapName(netOp.id)
        /\ filterRules[k].oifname = netOp.iface

\* C29: a create_tap with a bridge requested leaves the new tap device with
\* the bridge as link master and installs neither the forward rule nor a
\* masquerade rule; one without a bridge installs the forward rule
\* (tap, uplink) and sets no link master.
C29_BridgeOrRules ==
    [][TapCreated' =>
          IF bridged'
          THEN /\ TapName(netOp'.id) \in masters'
               /\ filterRules' = filterRules
               /\ natRules' = natRules
          ELSE /\ HasForwardRule'
               /\ masters' = masters]_vars

\* C30: no link master is set while the link named as bridge is absent or
\* is not of kind bridge.
C30_MasterOnlyToBridge ==
    [][bridgeKind # "bridge" => masters' \subseteq masters]_vars

(***************************************************************************)
(* Properties of the rules create_tap and cleanup leave behind             *)
(***************************************************************************)
\* C31: when create_tap has returned in non-bridge mode for a tap it has
\* just created, table ip nat holds a masquerade rule for the uplink.
C31_MasqueradeAfterCreate ==
    (TapCreated /\ ~bridged) =>
        MasqueradeRulesFor(natRules, IfaceVal(Head(netOp.iface))) # {}

\* the forward rules scoped to exactly the tap name t
TapScopedRules(rules, t) == {rules[k] : k \in {n \in DOMAIN rules : rules[n].iifname = t}}

\* C32: cleanup for one VM's tap leaves the forward rules of every other
\* VM's tap, also of a tap whose name contains the cleaned-up name, and the
\* rules of table ip nat (the shared masquerade rule) unchanged.
C32_CleanupScopedToTap ==
    [][netOp'.op = "cleanup" =>
          /\ \A j \in NetIds \ {netOp'.id} :
                TapScopedRules(filterRules', TapName(j))
                    = TapScopedRules(filterRules, TapName(j))
          /\ natRules' = natRules]_vars

(***************************************************************************)
(* Further properties of port forwarding                                   *)
(***************************************************************************)
\* C33: delete_port_forward removes the post-routing rule its lookup found,
\* whether chain postrouting or chain POSTROUTING holds it.
C33_DeleteEitherChain ==
    [][(pfOp'.op = "delete" /\ pfRes' = "ok") =>
          LET h == GetPortForwardHandles(tables, natRules, HostIp, PortVal(pfOp'.hp),
                                         VmIp(pfOp'.id), PortVal(pfOp'.dp))
          IN  h.postrouting # 0 =>
                  \A k \in DOMAIN natRules' : natRules'[k].handle # h.postrouting]_vars

\* C34: every port-forward mapping in table ip nat has the address of a
\* currently registered VM as destination.
C34_MappingsOfRegisteredVms ==
    \A k \in DOMAIN natRules :
        natRules[k].chain = "prerouting" =>
            \E i \in ListVmms : natRules[k].dnat_addr = VmIp(i)

\* the rule engine takes the batch the call of the step hands to it
BatchAccepted ==
    IF pfOp'.op = "pf_add"
    THEN AddPortForwardRules(natRules, natNext, IdVal(pfOp'.id), HostIp,
                             PortVal(pfOp'.hp), VmIp(pfOp'.id), PortVal(pfOp'.dp)).ok
    ELSE AddPortForwardRules(natRules, natNext, HostIp, PortVal(pfOp'.hp),
                             VmIp(pfOp'.id), PortVal(pfOp'.dp), ProtoTcp).ok

\* C35: when the rule engine rejects the port-forward rules, neither
\* add_port_forward returns normally nor port_forward reports forwarding
\* as active.
C35_RejectionIsAnError ==
    [][(\/ pfOp'.op = "add" /\ pfRes' = "ok"
        \/ pfOp'.op = "pf_add" /\ pfRes' = "active") => BatchAccepted]_vars

(***************************************************************************)
(* Properties of add_nat_rules                                             *)
(***************************************************************************)
\* C36: add_nat_rules raises no error when the rule engine answers 'File
\* exists' (or accepts the batch), and raises a network error for every
\* other non-zero answer.
C36_FileExistsTolerated ==
    netOp.op = "add_nat_rules" =>
        IF netOp.resp \in {"ok", "File exists"}
        THEN netRes = "none"
        ELSE netRes = "NetworkError"

\* the rule engine answered 'File exists' and add_nat_rules returned
C36_Witness ==
    /\ netOp.op = "add_nat_rules"
    /\ netOp.resp = "File exists"
    /\ netRes = "none"

\* another non-zero answer ended add_nat_rules with the network error
C36_WitnessRefused ==
    /\ netOp.op = "add_nat_rules"
    /\ netOp.resp = "Operation not permitted"
    /\ netRes = "NetworkError"

(***************************************************************************)
(* Properties of the relay loop                                            *)
(***************************************************************************)
\* C37: a pass of the relay loop that begins with the remote exit status
\* ready, reads zero bytes from the channel, or finds the local input at
\* its end is the last one: the loop ends in that pass, and the channel and
\* the SSH client are closed.
C37_RelayTerminates ==
    [][(/\ cpc = "relay"
        /\ relay'.iters = relay.iters + 1
        /\ (relay.exited \/ relay'.rx = "empty" \/ relay'.tx = "eof"))
       => (cpc' = "done" /\ sshClosed')]_vars

\* the loop relayed data, then read zero bytes and ended, all closed
C37_Witness ==
    /\ cpc = "done"
    /\ cres = [res |-> "closed", by |-> "eof"]
    /\ relay.iters > 1
    /\ relay.rx = "empty"
    /\ sshClosed

\* the remote shell exited during the session and the next pass ended it
C37_WitnessExit ==
    /\ cpc = "done"
    /\ cres = [res |-> "closed", by |-> "exit_status"]
    /\ relay.iters > 1
    /\ sshClosed

(***************************************************************************)
(* Further properties of create()                                          *)
(***************************************************************************)
\* this create() has issued the call named ep
Issued(ep) == \E k \in DOMAIN calls : calls[k].ep = ep

\* C38: the network-interface put of create() is issued only with the tap
\* device of the VM in place, and a create() whose tap provisioning failed
\* issues neither that put nor the start action.
C38_TapBeforeNetworkPut ==
    /\ Issued("network") => cur \in taps
    /\ (pc = "raised" /\ cause \in {"NetworkError", "ValueError"})
           => (~Issued("network") /\ ~Issued("start"))

\* the VM was started after its tap was provisioned and named in the put
C38_Witness ==
    /\ pc = "returned"
    /\ result = "created"
    /\ Issued("network")
    /\ Issued("start")
    /\ cur \in taps

\* tap provisioning failed after the machine put: no further call
C38_WitnessFailed ==
    /\ pc = "raised"
    /\ cause = "NetworkError"
    /\ Len(calls) = 3
    /\ cur \notin taps

\* C40: an address that passes the validation of the constructor differs
\* from the gateway address derived from it (validation passes IPv4 only,
\* so the two are compared by their octets).
C40_GuestDiffersFromGateway ==
    (fnOp = "ip_config" /\ fnRes.kind = "returned")
        => fnRes.ip_addr.o # fnRes.gateway_ip.o

\* C39: connect() and port_forward(), past their argument checks, called
\* with an id the registry does not list (or with an empty registry) return
\* the 'does not exist' / 'no VMs available' message, make no SSH connection
\* attempt and leave every packet-filter rule as it was.
C39_UnknownIdNoEffect ==
    [][\A i \in Ids :
          /\ (ConnectBegin(i, "ok") /\ i \notin ListVmms)
                => /\ cpc' = "done"
                   /\ cres'.res = (IF ListVmms = {} THEN "no_vmms" ELSE "not_exist")
                   /\ attempts' = attempts
                   /\ connected' = connected
                   /\ UNCHANGED hostVars
          /\ ((\E hp \in ChainHostPorts, dp \in ChainDestPorts, rm \in BOOLEAN,
                  ipOk \in BOOLEAN : PortForward(i, hp, dp, rm, ipOk))
               /\ i \notin ListVmms)
                => /\ pfRes' = (IF ListVmms = {} THEN "no_vmms" ELSE "not_exist")
                   /\ UNCHANGED hostVars]_vars

\* both calls answered 'does not exist' on a host with a running VM
C39_Witness ==
    /\ cpc = "done"
    /\ cres.res = "not_exist"
    /\ attempts = 0
    /\ pfRes = "not_exist"
    /\ ListVmms # {}

\* both calls answered 'no VMs available'
C39_WitnessEmpty ==
    /\ cpc = "done"
    /\ cres.res = "no_vmms"
    /\ pfRes = "no_vmms"
    /\ ListVmms = {}

====
